---------------------------- MODULE Spec2Model ----------------------------
(***************************************************************************)
(* A state-machine model of robotcode's JSON-RPC protocol engine           *)
(* (src/robotcode/server/jsonrpc2/protocol.py): message framing            *)
(* (data_received), decoding (_json_rpc_message_from_dict), dispatch       *)
(* (handle_message and its four handlers) and outgoing requests            *)
(* (send_request and the pending-request table), the method registry      *)
(* (RpcRegistry), parameter binding (_convert_params) and serialization    *)
(* (send_data); and of the text document store                             *)
(* (src/robotcode/language_server/common/text_document.py): the edits of   *)
(* a document and its memoization cache.                                   *)
(*                                                                         *)
(* Bytes are modelled as tokens.  A token is one byte of the stream except *)
(* for a few indivisible groups of bytes that the framing pattern treats   *)
(* as a unit:                                                              *)
(*   "CL"   the bytes  Content-Length:                                     *)
(*   "CT"   the bytes  Content-Type: application/vscode-jsonrpc;           *)
(*          charset=utf-8                                                  *)
(*   "CTx"  a Content-Type header naming a charset Python has no codec for *)
(*   "h"    any other run of header bytes without CR or LF                 *)
(*   "sp"   a space, "CR" and "LF" the two line-terminator bytes,          *)
(*   "0".."9" decimal digits,                                              *)
(*   "[" "]" the JSON array brackets, "x" a byte no JSON text contains,    *)
(*   "{" "}" "," and the member tokens of MemberTokens, each the text       *)
(*   "key": value of one member of a JSON object,                           *)
(*   and the object tokens of ObjectTokens, each the text of one JSON      *)
(*   object (counted as one byte of body).                                 *)
(***************************************************************************)
EXTENDS Integers, Sequences, FiniteSets, TLC

VARIABLES
    connection,       \* "none" | "open" | "lost": transport is None / connection_made / connection_lost
    wire,             \* bytes the peer has written that the transport has not delivered yet
    frames,           \* history: names of the frames the peer wrote, in order
    message_buf,      \* JsonRPCProtocol._message_buf
    tasks,            \* the handle_message tasks created by _handle_messages_generator
    sent,             \* the Responses and Errors send_data wrote to the transport, in order
    requests_written, \* the ids of the Requests send_data wrote to the transport
    request_futures,  \* JsonRPCProtocol._request_futures: id -> _RequestFuturesEntry
    futures,          \* the asyncio futures send_request returned, by request id
    next_id,          \* number of send_request calls so far + 1 (stands for uuid4)
    reg_methods,      \* RpcRegistry.__methods of the parent and of the child registry
    reg_initialized,  \* RpcRegistry.__initialized of the two registries
    reg_class_parts,  \* whether a class part (instance) was added to each registry
    reg_result,       \* what the last lookup on a registry returned
    bind_callable,    \* _convert_params: the parameters of the handler's signature
    bind_param_type,  \* _convert_params: the parameter-shape descriptor, "none" for None
    bind_params,      \* _convert_params: the raw params
    bind_result,      \* what _convert_params returned, NotCalled before
    peer_sent,        \* history: the messages the peer gave to its send_data, in order
    doc_text,         \* TextDocument._text, a sequence of characters
    doc_version,      \* TextDocument._version, 0 for None
    doc_lines,        \* TextDocument._lines: <<FALSE, <<>>>> for None, else <<TRUE, lines>>
    doc_lock,         \* TextDocument._lock: 0 when free, else the call that holds it
    doc_cache,        \* TextDocument._cache: consumer -> CacheEntry (an entry number)
    doc_entries,      \* the CacheEntry objects created so far: data and holder of lock
    doc_calls,        \* the calls on the document under way, by coroutine
    doc_runs,         \* history: the number of computations started so far
    doc_orig_text,    \* TextDocument._orig_text
    doc_orig_version, \* TextDocument._orig_version
    doc_data,         \* TextDocument._data: key -> value, 0 for a key it does not hold
    doc_stored,       \* history: what set_data stored last under each key
    doc_opened_in_editor,  \* TextDocument.opened_in_editor
    diag_refresh_support,  \* client_capabilities.workspace.diagnostics.refresh_support
    diag_records,     \* the DiagnosticsData objects created so far
    diag_tasks,       \* the tasks of _get_diagnostics_for_document created so far
    diag_pulls,       \* the textDocument/diagnostic handlers, each in its worker thread
    diag_responses,   \* history: the reports the handlers returned, in order
    diag_signals,     \* the workspace/diagnostic/refresh requests sent so far
    diag_forced,      \* the number of force_refresh_document calls so far
    diag_worker       \* the diagnostics worker: _diagnostics_loop, its lock and event, the threads

\* The protocol engine.
rpcVars == <<connection, wire, frames, message_buf, tasks, sent, requests_written,
             request_futures, futures, next_id>>

\* A pair of registries, one the parent of the other.
regVars == <<reg_methods, reg_initialized, reg_class_parts, reg_result>>

\* One call of _convert_params.
bindVars == <<bind_callable, bind_param_type, bind_params, bind_result>>

\* What a step of the protocol engine leaves alone.
\* One TextDocument and the coroutines that call it.
dataVars == <<doc_data, doc_stored>>

\* The diagnostics part of the protocol, for that document.
diagVars == <<doc_opened_in_editor, diag_refresh_support, diag_records, diag_tasks, diag_pulls,
              diag_responses, diag_signals, diag_forced, diag_worker>>
docVars == <<doc_text, doc_version, doc_lines, doc_lock, doc_cache, doc_entries, doc_calls,
             doc_runs, doc_orig_text, doc_orig_version, dataVars, diagVars>>

nonRpcVars == <<regVars, bindVars, peer_sent, docVars>>

vars == <<rpcVars, regVars, bindVars, peer_sent, docVars>>

----------------------------------------------------------------------------
(* Bounds of the model. *)

\* Frames the peer writes in one behaviour.
MaxFrames == 2
\* Outgoing requests (send_request calls) in one behaviour.
MaxRequests == 1
\* Messages the peer writes with send_data in one behaviour.
MaxSendData == 2
\* Characters of the text a document is created with.
MaxTextLen == 3
\* Synchronization operations, invalidations and evictions in one behaviour.
MaxEdits == 1
\* Coroutines that call get_cache, once each.
MaxCallers == 2
MaxDataOps == 2
MaxPulls == 2
MaxTriggers == 1
\* Reads of the document (text, get_lines) in one behaviour.
MaxReads == 2
\* Threads that ask for the diagnostics loop, and the calls each makes.
MaxStarters == 2
MaxStarts == 2

----------------------------------------------------------------------------
(* JsonRPCErrors *)

PARSE_ERROR == -32700
METHOD_NOT_FOUND == -32601
INTERNAL_ERROR == -32603

\* id: None of a message (JSON null); real ids are positive.
NullId == 0
\* "id" not a key of the JSON object.
AbsentId == -1

----------------------------------------------------------------------------
(* Sequence helpers. *)

Max(S) == CHOOSE m \in S : \A n \in S : n <= m

Drop(s, n) == SubSeq(s, n + 1, Len(s))

Take(s, n) == SubSeq(s, 1, n)

----------------------------------------------------------------------------
(* MESSAGE_PATTERN.match on the token sequence. *)

Digits == {"0", "1", "2", "3", "4", "5", "6", "7", "8", "9"}

DigitVal(t) ==
    CASE t = "0" -> 0 [] t = "1" -> 1 [] t = "2" -> 2 [] t = "3" -> 3 [] t = "4" -> 4
      [] t = "5" -> 5 [] t = "6" -> 6 [] t = "7" -> 7 [] t = "8" -> 8 [] t = "9" -> 9

\* The class [^\r\n].
NotCRLF(t) == t \notin {"CR", "LF"}

At(buf, i) == IF i >= 1 /\ i <= Len(buf) THEN buf[i] ELSE "EOF"

\* The sub-pattern \r\n at position i.
CRLFAt(buf, i) == At(buf, i) = "CR" /\ At(buf, i + 1) = "LF"

\* First position >= i holding a CR or LF (Len+1 if none): where the greedy
\* [^\r\n]* started at i stops.
RECURSIVE RunEnd(_, _)
RunEnd(buf, i) ==
    IF i > Len(buf) \/ ~NotCRLF(buf[i]) THEN i ELSE RunEnd(buf, i + 1)

\* One iteration of (?:[^\r\n]*\r\n) started at i: the position after it, 0 when
\* it cannot match.
LineEnd(buf, i) ==
    LET j == RunEnd(buf, i) IN IF CRLFAt(buf, j) THEN j + 2 ELSE 0

\* The positions the prefix (?:[^\r\n]*\r\n)* can stop at, starting from i.
RECURSIVE LineStarts(_, _)
LineStarts(buf, i) ==
    {i} \cup (IF LineEnd(buf, i) = 0 THEN {} ELSE LineStarts(buf, LineEnd(buf, i)))

\* The greedy \d+ started at i: the position after the last digit.
RECURSIVE DigitsEnd(_, _)
DigitsEnd(buf, i) ==
    IF At(buf, i) \in Digits THEN DigitsEnd(buf, i + 1) ELSE i

\* int() of the digits buf[i..j-1].
RECURSIVE IntOf(_, _, _, _)
IntOf(buf, i, j, acc) ==
    IF i >= j THEN acc ELSE IntOf(buf, i + 1, j, acc * 10 + DigitVal(buf[i]))

NoMatch == [found |-> FALSE, length |-> 1, charset |-> "utf-8", body |-> <<>>]

\* The charset group one header line buf[i..j-1] (without its CRLF) sets, "keep"
\* when the line is not a Content-Type line that carries a charset.
LineCharset(buf, i, j) ==
    IF At(buf, i) = "CT" /\ j = i + 1 THEN "utf-8"
    ELSE IF At(buf, i) \in {"CT", "CTx"} THEN "unknown"
    ELSE "keep"

\* ((Content-Type...\r\n)|(?:[^\r\n]+\r\n))* \r\n (?P<body>.*) started at i: each
\* iteration takes one non-empty line, the blank line ends the header block.
RECURSIVE HeaderRest(_, _, _, _)
HeaderRest(buf, i, length, charset) ==
    IF CRLFAt(buf, i)
    THEN [found |-> TRUE, length |-> length, charset |-> charset, body |-> Drop(buf, i + 1)]
    ELSE LET j == RunEnd(buf, i) IN
         IF j > i /\ CRLFAt(buf, j)
         THEN LET c == LineCharset(buf, i, j) IN
              HeaderRest(buf, j + 2, length, IF c = "keep" THEN charset ELSE c)
         ELSE NoMatch

\* (Content-Length: ?(?P<length>\d+)\r\n) and everything after it, started at p.
HeaderAt(buf, p) ==
    IF At(buf, p) # "CL" THEN NoMatch
    ELSE LET q == IF At(buf, p + 1) = "sp" THEN p + 2 ELSE p + 1
             e == DigitsEnd(buf, q)
         IN  IF e > q /\ CRLFAt(buf, e)
             THEN HeaderRest(buf, e + 2, IntOf(buf, q, e, 0), "utf-8")
             ELSE NoMatch

\* MESSAGE_PATTERN.match(buf).  The prefix (?:[^\r\n]*\r\n)* is greedy: it takes as
\* many lines as it can and gives them back one at a time until the rest of the
\* pattern matches, so the LAST line start from which the rest matches is used.
MessagePatternMatch(buf) ==
    LET cands == {p \in LineStarts(buf, 1) : HeaderAt(buf, p).found} IN
    IF cands = {} THEN NoMatch ELSE HeaderAt(buf, Max(cands))

\* The while loop of data_received: buf is _message_buf, data the chunk (then the
\* surplus), out the complete bodies cut off so far, each with its charset.
RECURSIVE DataReceivedLoop(_, _, _)
DataReceivedLoop(buf, data, out) ==
    IF Len(data) = 0 THEN [buf |-> buf, out |-> out]
    ELSE LET b == buf \o data
             m == MessagePatternMatch(b)
         IN  IF Len(m.body) < m.length
             THEN [buf |-> b, out |-> out]
             ELSE DataReceivedLoop(<<>>, Drop(m.body, m.length),
                      Append(out, [body |-> Take(m.body, m.length), charset |-> m.charset]))


----------------------------------------------------------------------------
(* json.loads and _json_rpc_message_from_dict on a body. *)

\* The JSON objects the peer sends, one token each; ObjectOf gives their keys.
MessageTokens ==
    {"nS", "nA", "nB", "nU", "qS", "qA", "qB", "qU", "r1", "r1b", "rN", "e1"}

\* JSON objects that are no JSON-RPC 2.0 message.
InvalidObjectTokens == {"o", "oV", "oR"}

ObjectTokens == MessageTokens \cup InvalidObjectTokens

Obj(jsonrpc, id, method, params, result, error) ==
    [jsonrpc |-> jsonrpc, id |-> id, method |-> method, params |-> params,
     result |-> result, error |-> error]

\* The keys of each JSON object: "absent" / AbsentId / 0 when the key is missing.
\* params "bad" is a params value the handler's parameters do not accept; result
\* "bad" is a result value the requested result type does not accept.
ObjectOf(t) ==
    CASE t = "nS"  -> Obj("2.0", AbsentId, "sync_m", "absent", "absent", 0)
      [] t = "nA"  -> Obj("2.0", AbsentId, "async_m", "good", "absent", 0)
      [] t = "nB"  -> Obj("2.0", AbsentId, "async_m", "bad", "absent", 0)
      [] t = "nU"  -> Obj("2.0", AbsentId, "unknown_m", "absent", "absent", 0)
      [] t = "qS"  -> Obj("2.0", 1, "sync_m", "absent", "absent", 0)
      [] t = "qA"  -> Obj("2.0", 2, "async_m", "good", "absent", 0)
      [] t = "qB"  -> Obj("2.0", 1, "async_m", "bad", "absent", 0)
      [] t = "qU"  -> Obj("2.0", 2, "unknown_m", "absent", "absent", 0)
      [] t = "r1"  -> Obj("2.0", 1, "absent", "absent", "ok", 0)
      [] t = "r1b" -> Obj("2.0", 1, "absent", "absent", "bad", 0)
      [] t = "rN"  -> Obj("2.0", NullId, "absent", "absent", "ok", 0)
      [] t = "e1"  -> Obj("2.0", 1, "absent", "absent", "absent", INTERNAL_ERROR)
      [] t = "o"   -> Obj("absent", AbsentId, "absent", "absent", "absent", 0)
      [] t = "oV"  -> Obj("1.0", AbsentId, "sync_m", "absent", "absent", 0)
      [] t = "oR"  -> Obj("2.0", 1, "absent", "absent", "absent", 0)

\* A message object: a field that is None reads "absent", whether its key was
\* missing in the JSON object (the default) or null.
Message(kind, d) ==
    [kind |-> kind, id |-> d.id, method |-> d.method,
     params |-> IF d.params = "null" THEN "absent" ELSE d.params,
     result |-> IF d.result = "null" THEN "absent" ELSE d.result, code |-> d.error]

NoMessage == [kind |-> "none", id |-> AbsentId, method |-> "absent", params |-> "absent",
              result |-> "absent", code |-> 0]

\* What json.loads gives for a JSON value that is no object (a number).
NotADict == Obj("notadict", AbsentId, "absent", "absent", "absent", 0)

\* inner(d) of _json_rpc_message_from_dict: the message it builds, or raised.  A
\* value that is no object raises TypeError at `"jsonrpc" in d`; pydantic raises
\* ValidationError for a missing required field.
Inner(d) ==
    IF d = NotADict THEN [raised |-> TRUE, msg |-> NoMessage]
    ELSE IF d.jsonrpc = "absent" THEN [raised |-> TRUE, msg |-> NoMessage]
    ELSE IF d.jsonrpc # "2.0" THEN [raised |-> TRUE, msg |-> NoMessage]
    ELSE IF d.id # AbsentId
         THEN IF d.method # "absent"
              THEN [raised |-> FALSE, msg |-> Message("request", d)]
              ELSE IF d.error # 0
                   THEN [raised |-> FALSE, msg |-> Message("error", d)]
                   ELSE IF d.result = "absent"
                        THEN [raised |-> TRUE, msg |-> NoMessage]
                        ELSE [raised |-> FALSE, msg |-> Message("response", d)]
         ELSE IF d.method = "absent"
              THEN [raised |-> TRUE, msg |-> NoMessage]
              ELSE [raised |-> FALSE, msg |-> Message("notification", d)]

JsonWhitespace == {"sp", "CR", "LF"}

JsonValueTokens == ObjectTokens \cup Digits

IsJsonWhitespace(t) == t \in JsonWhitespace

\* The members of a JSON object written out key by key, one token each (the token
\* is the text `"key": value`), as json() writes the messages of send_data.
MemberTokens ==
    {"jsonrpc:2.0", "id:1", "id:2", "id:null", "method:sync_m", "method:async_m",
     "method:unknown_m", "params:null", "params:good", "params:bad", "result:null",
     "result:ok", "result:bad", "error:-32700", "error:-32601", "error:-32603"}

\* The dict after `"key": value` of member token t is read into it.
ReadMember(d, t) ==
    CASE t = "jsonrpc:2.0"      -> [d EXCEPT !.jsonrpc = "2.0"]
      [] t = "id:1"             -> [d EXCEPT !.id = 1]
      [] t = "id:2"             -> [d EXCEPT !.id = 2]
      [] t = "id:null"          -> [d EXCEPT !.id = NullId]
      [] t = "method:sync_m"    -> [d EXCEPT !.method = "sync_m"]
      [] t = "method:async_m"   -> [d EXCEPT !.method = "async_m"]
      [] t = "method:unknown_m" -> [d EXCEPT !.method = "unknown_m"]
      [] t = "params:null"      -> [d EXCEPT !.params = "null"]
      [] t = "params:good"      -> [d EXCEPT !.params = "good"]
      [] t = "params:bad"       -> [d EXCEPT !.params = "bad"]
      [] t = "result:null"      -> [d EXCEPT !.result = "null"]
      [] t = "result:ok"        -> [d EXCEPT !.result = "ok"]
      [] t = "result:bad"       -> [d EXCEPT !.result = "bad"]
      [] t = "error:-32700"     -> [d EXCEPT !.error = PARSE_ERROR]
      [] t = "error:-32601"     -> [d EXCEPT !.error = METHOD_NOT_FOUND]
      [] t = "error:-32603"     -> [d EXCEPT !.error = INTERNAL_ERROR]

\* The members m ("," m)* of a JSON object, read left to right from position i;
\* ok is FALSE when the text is not of that form.
RECURSIVE ReadMembers(_, _, _)
ReadMembers(t, i, d) ==
    IF i > Len(t) \/ t[i] \notin MemberTokens THEN [ok |-> FALSE, dict |-> d]
    ELSE LET d1 == ReadMember(d, t[i]) IN
         IF i = Len(t) THEN [ok |-> TRUE, dict |-> d1]
         ELSE IF t[i + 1] = "," THEN ReadMembers(t, i + 2, d1)
         ELSE [ok |-> FALSE, dict |-> d1]

\* The Python value of a JSON value that is one token.
JsonValue(t) == IF t \in ObjectTokens THEN ObjectOf(t) ELSE NotADict

\* json.loads(body): whitespace may surround any JSON token; the text is one value,
\* an array [ v ... ] of values (the commas are not modelled), or an object
\* written out as { member , member ... }.
JsonLoads(body) ==
    LET t == SelectSeq(body, LAMBDA x : ~IsJsonWhitespace(x)) IN
    IF Len(t) = 1 /\ t[1] \in JsonValueTokens
    THEN [ok |-> TRUE, list |-> FALSE, items |-> <<JsonValue(t[1])>>]
    ELSE IF Len(t) >= 2 /\ t[1] = "[" /\ t[Len(t)] = "]"
            /\ \A i \in 2..(Len(t) - 1) : t[i] \in JsonValueTokens
         THEN [ok |-> TRUE, list |-> TRUE, items |-> [i \in 1..(Len(t) - 2) |-> JsonValue(t[i + 1])]]
         ELSE IF Len(t) >= 3 /\ t[1] = "{" /\ t[Len(t)] = "}"
              THEN LET r == ReadMembers(SubSeq(t, 2, Len(t) - 1), 1,
                                Obj("absent", AbsentId, "absent", "absent", "absent", 0))
                   IN  [ok |-> r.ok, list |-> FALSE, items |-> IF r.ok THEN <<r.dict>> ELSE <<>>]
              ELSE [ok |-> FALSE, list |-> FALSE, items |-> <<>>]

\* The generator _json_rpc_message_from_dict as _handle_messages_generator consumes
\* it: the messages yielded before the first item for which inner raises.
RECURSIVE MessagesFromDict(_, _)
MessagesFromDict(items, acc) ==
    IF items = <<>> THEN [msgs |-> acc, raised |-> FALSE]
    ELSE LET r == Inner(Head(items)) IN
         IF r.raised THEN [msgs |-> acc, raised |-> TRUE]
         ELSE MessagesFromDict(Tail(items), Append(acc, r.msg))

\* The try block of data_received for one complete body: body.decode(charset),
\* json.loads, and the messages handed to handle_message before anything raised.
DecodeBody(f) ==
    IF f.charset # "utf-8" THEN [msgs |-> <<>>, raised |-> TRUE]
    ELSE LET v == JsonLoads(f.body) IN
         IF ~v.ok THEN [msgs |-> <<>>, raised |-> TRUE]
         ELSE MessagesFromDict(v.items, <<>>)

----------------------------------------------------------------------------
(* send_data: a message object to bytes. *)

\* The message objects send_response, send_error, send_request and
\* send_notification build (None reads "absent").
ResponseMessage(id, result) ==
    [kind |-> "response", id |-> id, method |-> "absent", params |-> "absent",
     result |-> result, code |-> 0]
ErrorMessage(id, code) ==
    [kind |-> "error", id |-> id, method |-> "absent", params |-> "absent",
     result |-> "absent", code |-> code]
RequestMessage(id, method, params) ==
    [kind |-> "request", id |-> id, method |-> method, params |-> params,
     result |-> "absent", code |-> 0]
NotificationMessage(method, params) ==
    [kind |-> "notification", id |-> AbsentId, method |-> method, params |-> params,
     result |-> "absent", code |-> 0]

SendDataMessages ==
    {ResponseMessage(1, "ok"), ResponseMessage(NullId, "absent"),
     ErrorMessage(1, INTERNAL_ERROR), ErrorMessage(NullId, PARSE_ERROR),
     RequestMessage(2, "sync_m", "absent"), NotificationMessage("async_m", "good")}

\* __fields_set__ of the message object: the fields its constructor call names
\* (send_response: id, result; send_error: id, error; send_request: id, method,
\* params; send_notification: method, params) and jsonrpc, which send_data assigns.
FieldsSet(m) ==
    {"jsonrpc"} \cup
    (CASE m.kind = "response"     -> {"id", "result"}
       [] m.kind = "error"        -> {"id", "error"}
       [] m.kind = "request"      -> {"id", "method", "params"}
       [] m.kind = "notification" -> {"method", "params"})

\* The mutant of MessageDict: fields that are None are left out (exclude_none).
MessageDictExcludeNone(m) ==
    LET fs == FieldsSet(m) IN
    Obj("2.0",
        IF "id" \in fs /\ m.id # NullId THEN m.id ELSE AbsentId,
        IF "method" \in fs THEN m.method ELSE "absent",
        IF "params" \in fs THEN m.params ELSE "absent",
        IF "result" \in fs THEN m.result ELSE "absent",
        IF "error" \in fs THEN m.code ELSE 0)

\* The dict message.json(by_alias=True, exclude_unset=True) writes: the fields
\* that are set, a None among them as null.
MessageDict(m) ==
    LET fs == FieldsSet(m) IN
    Obj("2.0",
        IF "id" \in fs THEN m.id ELSE AbsentId,
        IF "method" \in fs THEN m.method ELSE "absent",
        IF "params" \in fs THEN (IF m.params = "absent" THEN "null" ELSE m.params) ELSE "absent",
        IF "result" \in fs THEN (IF m.result = "absent" THEN "null" ELSE m.result) ELSE "absent",
        IF "error" \in fs THEN m.code ELSE 0)

\* The member tokens of the keys a dict has, in the order of the fields.
DictMembers(d) ==
    (IF d.jsonrpc = "2.0" THEN <<"jsonrpc:2.0">> ELSE <<>>)
    \o (CASE d.id = AbsentId -> <<>> [] d.id = NullId -> <<"id:null">>
           [] d.id = 1 -> <<"id:1">> [] d.id = 2 -> <<"id:2">>)
    \o (CASE d.method = "absent" -> <<>> [] d.method = "sync_m" -> <<"method:sync_m">>
           [] d.method = "async_m" -> <<"method:async_m">>
           [] d.method = "unknown_m" -> <<"method:unknown_m">>)
    \o (CASE d.params = "absent" -> <<>> [] d.params = "null" -> <<"params:null">>
           [] d.params = "good" -> <<"params:good">> [] d.params = "bad" -> <<"params:bad">>)
    \o (CASE d.result = "absent" -> <<>> [] d.result = "null" -> <<"result:null">>
           [] d.result = "ok" -> <<"result:ok">> [] d.result = "bad" -> <<"result:bad">>)
    \o (CASE d.error = 0 -> <<>> [] d.error = PARSE_ERROR -> <<"error:-32700">>
           [] d.error = METHOD_NOT_FOUND -> <<"error:-32601">>
           [] d.error = INTERNAL_ERROR -> <<"error:-32603">>)

\* json.dumps(..., indent=True): every member on a line of its own after one
\* space, a comma after all but the last, the closing brace on its own line.
RECURSIVE IndentedMembers(_)
IndentedMembers(ms) ==
    IF ms = <<>> THEN <<>>
    ELSE <<"LF", "sp", Head(ms)>> \o (IF Len(ms) > 1 THEN <<",">> ELSE <<>>)
         \o IndentedMembers(Tail(ms))

JsonDumps(d) == <<"{">> \o IndentedMembers(DictMembers(d)) \o <<"LF", "}">>

DigitToken(n) ==
    CASE n = 0 -> "0" [] n = 1 -> "1" [] n = 2 -> "2" [] n = 3 -> "3" [] n = 4 -> "4"
      [] n = 5 -> "5" [] n = 6 -> "6" [] n = 7 -> "7" [] n = 8 -> "8" [] n = 9 -> "9"

\* f"{n}": the decimal digits of n.
RECURSIVE Decimal(_)
Decimal(n) == IF n < 10 THEN <<DigitToken(n)>> ELSE Append(Decimal(n \div 10), DigitToken(n % 10))

\* The body send_data encodes and the bytes it hands to transport.write.
SendDataBody(m) == JsonDumps(MessageDict(m))

SendDataBytes(m) ==
    LET body == SendDataBody(m) IN
    <<"CL", "sp">> \o Decimal(Len(body)) \o <<"CR", "LF", "CT", "CR", "LF", "CR", "LF">> \o body

----------------------------------------------------------------------------
(* The bytes the peer writes. *)

SimpleFrame(t) == <<"CL", "sp", "1", "CR", "LF", "CR", "LF", t>>

\* Frames used to exercise the framing: well-formed ones (G_), complete frames
\* whose body does not decode (B_), an empty batch (E_) and malformed header
\* blocks (H_).
FramingFrames ==
    {"G_ct", "G_crlf", "G_pre", "G_batch", "B_json", "B_crlf", "B_obj", "B_ver",
     "B_charset", "B_mixed", "E_batch", "H_nolen", "H_badlen"}

FrameBytes(f) ==
    CASE f = "G_ct"      -> <<"CL", "3", "CR", "LF", "CT", "CR", "LF", "CR", "LF", "[", "qS", "]">>
      [] f = "G_crlf"    -> <<"CL", "sp", "3", "CR", "LF", "CR", "LF", "nS", "CR", "LF">>
      [] f = "G_pre"     -> <<"h", "CR", "LF", "CL", "sp", "1", "CR", "LF", "CR", "LF", "nA">>
      [] f = "G_batch"   -> <<"CL", "sp", "4", "CR", "LF", "CR", "LF", "[", "nS", "nA", "]">>
      [] f = "B_json"    -> <<"CL", "sp", "1", "CR", "LF", "CR", "LF", "x">>
      [] f = "B_crlf"    -> <<"CL", "sp", "3", "CR", "LF", "CR", "LF", "x", "CR", "LF">>
      [] f = "B_obj"     -> SimpleFrame("o")
      [] f = "B_ver"     -> SimpleFrame("oV")
      [] f = "B_charset" -> <<"CL", "sp", "1", "CR", "LF", "CTx", "CR", "LF", "CR", "LF", "nS">>
      [] f = "B_mixed"   -> <<"CL", "sp", "4", "CR", "LF", "CR", "LF", "[", "nS", "o", "]">>
      [] f = "E_batch"   -> <<"CL", "sp", "2", "CR", "LF", "CR", "LF", "[", "]">>
      [] f = "H_nolen"   -> <<"h", "CR", "LF", "CR", "LF">>
      [] f = "H_badlen"  -> <<"CL", "sp", "h", "CR", "LF", "CR", "LF", "x">>
      [] OTHER           -> SimpleFrame(f)

\* "good": a header block with Content-Length and a body that is a JSON-RPC 2.0
\* message or a non-empty batch of them; "badbody": a complete frame whose body is
\* not; "empty": the empty batch; "badheader": no valid Content-Length line.
FrameKind(f) ==
    CASE f \in {"B_json", "B_crlf", "B_obj", "B_ver", "B_charset", "B_mixed"} -> "badbody"
      [] f = "E_batch" -> "empty"
      [] f \in {"H_nolen", "H_badlen"} -> "badheader"
      [] OTHER -> "good"

\* The object tokens of a frame's body that are messages, up to the first body
\* token that is an object but no message.
RECURSIVE FrameMessageTokens(_)
FrameMessageTokens(body) ==
    IF body = <<>> \/ Head(body) \in InvalidObjectTokens THEN <<>>
    ELSE IF Head(body) \in MessageTokens
         THEN <<Head(body)>> \o FrameMessageTokens(Tail(body))
         ELSE FrameMessageTokens(Tail(body))

\* The messages a frame carries, read off the frame as the peer wrote it.
FrameMessages(f) ==
    IF FrameKind(f) \in {"good", "badbody"} /\ f \notin {"B_charset"}
    THEN LET ts == FrameMessageTokens(FrameBytes(f)) IN
         [i \in 1..Len(ts) |-> Inner(ObjectOf(ts[i])).msg]
    ELSE <<>>

RECURSIVE MessagesOfFrames(_)
MessagesOfFrames(fs) ==
    IF fs = <<>> THEN <<>> ELSE FrameMessages(Head(fs)) \o MessagesOfFrames(Tail(fs))

RECURSIVE BytesOfFrames(_)
BytesOfFrames(fs) ==
    IF fs = <<>> THEN <<>> ELSE FrameBytes(Head(fs)) \o BytesOfFrames(Tail(fs))

----------------------------------------------------------------------------
(* RpcRegistry: a registry and the registry RpcRegistry.__get__ derives from it *)
(* for an instance (its parent is the first).                                   *)

Registries == {"parent", "child"}

\* RpcRegistry.__parent
RegistryParent(r) == IF r = "child" THEN "parent" ELSE "none"

MethodNames == {"a", "b", "c"}

\* RpcMethodEntry(name, method, param_type); the method is named by where it was
\* found: <<registry, "owner">>, <<registry, "part">> or <<registry, "added">>.
RpcMethodEntry(name, method) == [name |-> name, method |-> method]

\* None, returned by a lookup.
NoneEntry == [name |-> "none", method |-> <<"none", "none">>]

\* The rpc methods dir() finds on the owner of each registry and on the class
\* part (for the child: the part's instance).
OwnerRpcMethods(r) == IF r = "parent" THEN {"a"} ELSE {"a", "b"}
PartRpcMethods == {"c"}

\* dict.update and {**a, **b}: b's entries over a's.
Update(a, b) ==
    [n \in DOMAIN a \cup DOMAIN b |-> IF n \in DOMAIN b THEN b[n] ELSE a[n]]

\* get_methods(owner), then update() with the methods of the class parts.
ScannedMethods(r, has_part) ==
    Update([n \in OwnerRpcMethods(r) |-> RpcMethodEntry(n, <<r, "owner">>)],
           IF has_part THEN [n \in PartRpcMethods |-> RpcMethodEntry(n, <<r, "part">>)]
           ELSE <<>>)

\* A registry state: the fields of reg_methods, reg_initialized, reg_class_parts.
RegistryState(m, i, p) == [methods |-> m, initialized |-> i, class_parts |-> p]

\* __ensure_initialized() on registry r.
EnsureInitialized(st, r) ==
    IF st.initialized[r] THEN st
    ELSE [st EXCEPT !.methods[r] = ScannedMethods(r, st.class_parts[r]),
                    !.initialized[r] = TRUE]

\* The property `methods` of registry r: the state after it and the dict returned.
RECURSIVE RegistryMethods(_, _)
RegistryMethods(st, r) ==
    LET st1 == EnsureInitialized(st, r) IN
    IF RegistryParent(r) # "none"
    THEN LET p == RegistryMethods(st1, RegistryParent(r)) IN
         [st |-> p.st, value |-> Update(p.value, p.st.methods[r])]
    ELSE [st |-> st1, value |-> st1.methods[r]]

\* get_entry(name) on registry r: the state after it and the entry returned.
RegistryGetEntry(st, r, name) ==
    LET st1 == EnsureInitialized(st, r) IN
    [st |-> st1,
     value |-> IF name \in DOMAIN st1.methods[r] THEN st1.methods[r][name] ELSE NoneEntry]

NoLookup == [op |-> "none", reg |-> "none", name |-> "none", value |-> NoneEntry]

RegistryInit ==
    /\ reg_methods = [r \in Registries |-> <<>>]
    /\ reg_initialized = [r \in Registries |-> FALSE]
    /\ reg_class_parts = [r \in Registries |-> FALSE]
    /\ reg_result = NoLookup

CurrentRegistry == RegistryState(reg_methods, reg_initialized, reg_class_parts)

SetRegistry(st) ==
    /\ reg_methods' = st.methods
    /\ reg_initialized' = st.initialized
    /\ reg_class_parts' = st.class_parts

\* add_method(name, func) on registry r.
AddMethod(r, name) ==
    /\ LET st == EnsureInitialized(CurrentRegistry, r) IN
       SetRegistry([st EXCEPT !.methods[r] =
                       Update(@, [n \in {name} |-> RpcMethodEntry(name, <<r, "added">>)])])
    /\ reg_result' = NoLookup
    /\ UNCHANGED <<rpcVars, bindVars, peer_sent, docVars>>

\* remove_method(name) on registry r.
RemoveMethod(r, name) ==
    /\ LET st == EnsureInitialized(CurrentRegistry, r) IN
       SetRegistry([st EXCEPT !.methods[r] = [n \in DOMAIN @ \ {name} |-> @[n]]])
    /\ reg_result' = NoLookup
    /\ UNCHANGED <<rpcVars, bindVars, peer_sent, docVars>>

\* add_class_part(class_type) / add_class_part_instance(instance) on registry r:
\* _reset(), then the part is remembered.
AddClassPart(r) ==
    /\ ~reg_class_parts[r]
    /\ SetRegistry([CurrentRegistry EXCEPT !.methods[r] = <<>>,
                                           !.initialized[r] = FALSE,
                                           !.class_parts[r] = TRUE])
    /\ reg_result' = NoLookup
    /\ UNCHANGED <<rpcVars, bindVars, peer_sent, docVars>>

\* A caller reads r.get_entry(name).
LookupGetEntry(r, name) ==
    /\ LET g == RegistryGetEntry(CurrentRegistry, r, name) IN
       /\ SetRegistry(g.st)
       /\ reg_result' = [op |-> "get_entry", reg |-> r, name |-> name, value |-> g.value]
    /\ UNCHANGED <<rpcVars, bindVars, peer_sent, docVars>>

\* A caller reads r.methods.
LookupMethods(r) ==
    /\ LET g == RegistryMethods(CurrentRegistry, r) IN
       /\ SetRegistry(g.st)
       /\ reg_result' = [op |-> "methods", reg |-> r, name |-> "none", value |-> g.value]
    /\ UNCHANGED <<rpcVars, bindVars, peer_sent, docVars>>

----------------------------------------------------------------------------
(* _convert_params(callable, param_type, params) *)

\* inspect.Parameter kinds; "KEYWORD" stands for POSITIONAL_OR_KEYWORD and
\* KEYWORD_ONLY, which _convert_params does not tell apart.
ParameterKinds == {"POSITIONAL_ONLY", "KEYWORD", "VAR_KEYWORD"}

Parameter(name, kind) == [name |-> name, kind |-> kind]

\* Names of declared parameters and of fields of the typed params object.
ParameterNames == {"a", "b", "params"}
FieldNames == {"a", "b", "c", "params"}

\* The handler signatures Python accepts over these names: positional-only
\* parameters first, **kwargs last, no name twice.
Signatures ==
    LET P == {Parameter(n, k) : n \in ParameterNames, k \in {"POSITIONAL_ONLY", "KEYWORD"}}
                \cup {Parameter("kwargs", "VAR_KEYWORD")}
        Rank(k) == CASE k = "POSITIONAL_ONLY" -> 1 [] k = "KEYWORD" -> 2 [] OTHER -> 3
    IN  {sig \in UNION {[1..n -> P] : n \in 0..(Cardinality(ParameterNames) + 1)} :
            /\ \A i, j \in DOMAIN sig : i < j =>
                   /\ sig[i].name # sig[j].name
                   /\ Rank(sig[i].kind) <= Rank(sig[j].kind)}

\* getattr(converted_params, name) and converted_params itself.
FieldValue(name) == [field |-> name]
TypedObject(fields) == [object |-> fields]

\* The raw params: None, a mapping with these keys, or a value that is no mapping.
AbsentParams == [kind |-> "absent", mapping |-> {}]
MappingParams(fields) == [kind |-> "mapping", mapping |-> fields]
ScalarParams == [kind |-> "scalar", mapping |-> {}]

NotCalled == [raised |-> FALSE, called |-> FALSE, args |-> <<>>, kw_args |-> <<>>]
Returned(args, kw_args) == [raised |-> FALSE, called |-> TRUE, args |-> args, kw_args |-> kw_args]
Raised == [raised |-> TRUE, called |-> TRUE, args |-> <<>>, kw_args |-> <<>>]

\* `kw_args[name] = value`
SetItem(kw, name, value) == [n \in DOMAIN kw \cup {name} |-> IF n = name THEN value ELSE kw[n]]

\* One round of the loop over signature.parameters.values().
BindParameter(v, fields, has_var_kw, acc) ==
    IF v.name \in fields
    THEN [acc EXCEPT !.args = IF v.kind = "POSITIONAL_ONLY"
                              THEN Append(@, FieldValue(v.name)) ELSE @,
                     !.kw_args = IF v.kind # "POSITIONAL_ONLY" /\ has_var_kw
                                 THEN SetItem(@, v.name, FieldValue(v.name)) ELSE @,
                     !.rest = @ \ {v.name}]
    ELSE IF v.name = "params"
         THEN IF v.kind = "POSITIONAL_ONLY"
              THEN [acc EXCEPT !.args = Append(@, TypedObject(fields)), !.params_added = TRUE]
              ELSE [acc EXCEPT !.kw_args = SetItem(@, v.name, TypedObject(fields)),
                               !.params_added = TRUE]
         ELSE acc

RECURSIVE BindParameters(_, _, _, _)
BindParameters(sig, fields, has_var_kw, acc) ==
    IF sig = <<>> THEN acc
    ELSE BindParameters(Tail(sig), fields, has_var_kw,
                        BindParameter(Head(sig), fields, has_var_kw, acc))

\* _convert_params: ([], {}) without params; without a descriptor a mapping is
\* spread as keywords and anything else passed as the one positional argument;
\* with a descriptor param_type(**params) builds the typed object (a TypeError
\* for params that is no mapping), whose fields are then bound.
ConvertParams(sig, param_type, params) ==
    IF params.kind = "absent" THEN Returned(<<>>, <<>>)
    ELSE IF param_type = "none"
         THEN IF params.kind = "scalar" THEN Returned(<<params>>, <<>>)
              ELSE Returned(<<>>, [n \in params.mapping |-> FieldValue(n)])
         ELSE IF params.kind = "scalar" THEN Raised
              ELSE LET fields == params.mapping
                       has_var_kw == \E i \in DOMAIN sig : sig[i].kind = "VAR_KEYWORD"
                       acc == BindParameters(sig, fields, has_var_kw,
                                  [args |-> <<>>, kw_args |-> <<>>, rest |-> fields,
                                   params_added |-> FALSE])
                       kw1 == IF has_var_kw
                              THEN [n \in DOMAIN acc.kw_args \cup acc.rest |->
                                       IF n \in acc.rest THEN FieldValue(n) ELSE acc.kw_args[n]]
                              ELSE acc.kw_args
                       kw2 == IF has_var_kw /\ ~acc.params_added
                              THEN SetItem(kw1, "params", TypedObject(fields)) ELSE kw1
                   IN  Returned(acc.args, kw2)

\* No call of _convert_params is under way.
BindingIdle ==
    /\ bind_callable = <<>>
    /\ bind_param_type = "none"
    /\ bind_params = AbsentParams
    /\ bind_result = NotCalled

\* The inputs of one call.
BindingInputs ==
    /\ bind_callable \in Signatures
    /\ bind_param_type \in {"none", "T"}
    /\ bind_params \in {AbsentParams, ScalarParams} \cup {MappingParams(f) : f \in SUBSET FieldNames}
    /\ bind_result = NotCalled

\* handle_request / handle_notification call _convert_params(e.method, e.param_type,
\* message.params).
CallConvertParams ==
    /\ ~bind_result.called
    /\ bind_result' = ConvertParams(bind_callable, bind_param_type, bind_params)
    /\ UNCHANGED <<rpcVars, regVars, peer_sent, docVars, bind_callable, bind_param_type, bind_params>>

----------------------------------------------------------------------------
(* TextDocument: the text and its lines. *)

\* Characters: a letter, and the line terminators \r and \n.
Chars == {"a", "CR", "NL"}

\* Position and Range of lsp_types.
Position(line, character) == [line |-> line, character |-> character]
Range(start, end) == [start |-> start, end |-> end]

\* Position.__gt__
PositionGt(self, other) ==
    IF self.line > other.line THEN TRUE
    ELSE IF self.line = other.line THEN self.character > other.character
    ELSE FALSE

\* Length of the first line of text with its terminator (\n, \r\n or \r), the
\* whole text when it has none: where str.splitlines(True) cuts first.
RECURSIVE FirstLineLen(_, _)
FirstLineLen(text, i) ==
    IF i > Len(text) THEN Len(text)
    ELSE IF text[i] = "NL" THEN i
    ELSE IF text[i] = "CR" THEN (IF i < Len(text) /\ text[i + 1] = "NL" THEN i + 1 ELSE i)
    ELSE FirstLineLen(text, i + 1)

\* text.splitlines(True)
RECURSIVE SplitLines(_)
SplitLines(text) ==
    IF text = <<>> THEN <<>>
    ELSE LET n == FirstLineLen(text, 1) IN
         <<SubSeq(text, 1, n)>> \o SplitLines(SubSeq(text, n + 1, Len(text)))

\* line[:col] and line[col:] of Python: the index is cut to the length.
SliceTo(line, col) == SubSeq(line, 1, IF col < Len(line) THEN col ELSE Len(line))
SliceFrom(line, col) == SubSeq(line, (IF col < Len(line) THEN col ELSE Len(line)) + 1, Len(line))

\* __get_lines(): the lines kept in _lines, computed from _text when it is None.
GetLines(text, lines) == IF lines[1] THEN lines[2] ELSE SplitLines(text)

NoLines == <<FALSE, <<>>>>

\* The mutant of IncrementalLoop: the rest of the end line is not written.
RECURSIVE IncrementalLoopNoSuffix(_, _, _, _, _)
IncrementalLoopNoSuffix(lines, i, range, text, new_text) ==
    IF i >= Len(lines) THEN new_text
    ELSE LET line == lines[i + 1] IN
         IncrementalLoopNoSuffix(lines, i + 1, range, text,
             IF i < range.start.line \/ i > range.end.line THEN new_text \o line
             ELSE new_text
                  \o (IF i = range.start.line
                      THEN SliceTo(line, range.start.character) \o text ELSE <<>>))

\* The loop `for i, line in enumerate(lines)` from index i on: what it writes to
\* new_text.
RECURSIVE IncrementalLoop(_, _, _, _, _)
IncrementalLoop(lines, i, range, text, new_text) ==
    IF i >= Len(lines) THEN new_text
    ELSE LET line == lines[i + 1] IN
         IncrementalLoop(lines, i + 1, range, text,
             IF i < range.start.line \/ i > range.end.line THEN new_text \o line
             ELSE new_text
                  \o (IF i = range.start.line
                      THEN SliceTo(line, range.start.character) \o text ELSE <<>>)
                  \o (IF i = range.end.line
                      THEN SliceFrom(line, range.end.character) ELSE <<>>))

\* The mutant of IncrementalText: the range is not checked.
IncrementalTextUnchecked(old, lines, range, text) ==
    LET ls == GetLines(old, lines) IN
    IF range.start.line = Len(ls) THEN [raised |-> FALSE, appended |-> TRUE, text |-> old \o text]
    ELSE [raised |-> FALSE, appended |-> FALSE,
          text |-> IncrementalLoop(ls, 0, range, text, <<>>)]

\* The mutant of IncrementalText: a start line past the last line is not told
\* apart.
IncrementalTextNoAppend(old, lines, range, text) ==
    IF PositionGt(range.start, range.end)
    THEN [raised |-> TRUE, appended |-> FALSE, text |-> old]
    ELSE [raised |-> FALSE, appended |-> FALSE,
          text |-> IncrementalLoop(GetLines(old, lines), 0, range, text, <<>>)]

\* The mutant of IncrementalText: a start line anywhere past the last line
\* appends.
IncrementalTextAppendPast(old, lines, range, text) ==
    IF PositionGt(range.start, range.end)
    THEN [raised |-> TRUE, appended |-> FALSE, text |-> old]
    ELSE LET ls == GetLines(old, lines) IN
         IF range.start.line >= Len(ls)
         THEN [raised |-> FALSE, appended |-> TRUE, text |-> old \o text]
         ELSE [raised |-> FALSE, appended |-> FALSE,
               text |-> IncrementalLoop(ls, 0, range, text, <<>>)]

\* The try block of apply_incremental_change on the text: InvalidRangeError and
\* the text as it was when start > end, else the new text; appended tells that
\* the block was left by the return of `if start_line == len(lines)`.
IncrementalText(old, lines, range, text) ==
    IF PositionGt(range.start, range.end)
    THEN [raised |-> TRUE, appended |-> FALSE, text |-> old]
    ELSE LET ls == GetLines(old, lines) IN
         IF range.start.line = Len(ls)
         THEN [raised |-> FALSE, appended |-> TRUE, text |-> old \o text]
         ELSE [raised |-> FALSE, appended |-> FALSE,
               text |-> IncrementalLoop(ls, 0, range, text, <<>>)]

----------------------------------------------------------------------------
(* TextDocument: the calls on one document.  The coroutines 1..MaxCallers call  *)
(* get_cache; coroutine Editor calls the synchronization operations.  Lock of   *)
(* utils.async_tools is an exclusive lock: `async with` waits until the lock is *)
(* free, holds it for the block and frees it however the block is left.         *)

Callers == 1..MaxCallers
Editor == 0
Coroutines == {Editor} \cup Callers

\* Lock(): an exclusive lock, free when made.  Its value is the coroutine that
\* holds it, NoHolder when it is free.
NoHolder == -1
NewLock == NoHolder
Locked(lock) == lock # NoHolder
\* Entering `async with lock` (for a coroutine that found it free) and leaving it.
Acquire(lock, p) == p
Release(lock) == NoHolder

\* The consumers whose identity keys the cache.
Consumers == {"c1", "c2"}

\* CacheEntry(): data None (0) and a free lock.  running is history: the run under
\* way on the entry (0: none).
CacheEntry == [data |-> 0, lock |-> NewLock, running |-> 0]

\* self._cache: for each consumer the entry of its slot (0: no slot).  An entry
\* is named by the caller that made it.
NoSlots == [c \in Consumers |-> 0]

NoRange == Range(Position(0, 0), Position(0, 0))

NoResult == [kind |-> "none", value |-> 0]
ReturnValue(v) == [kind |-> "value", value |-> v]
RaisedError == [kind |-> "exception", value |-> 0]
ReturnTrue == [kind |-> "bool", value |-> 1]
ReturnFalse == [kind |-> "bool", value |-> 0]

\* A coroutine that has not called yet.  n counts its calls, e is the local e of
\* get_cache (0: None); joined, fresh_after and branch are history: the latest run
\* under way on the entry while the call has had hold of it (0: none), the number
\* of runs started before the call when the consumer had no slot then (-1
\* otherwise), and the way apply_incremental_change left its try block.  via
\* tells an apply_full_change that save or revert awaits from one called as such.
IdleCall ==
    [op |-> "none", pc |-> "idle", consumer |-> "none", e |-> 0, version |-> 0,
     range |-> NoRange, text |-> <<>>, result |-> NoResult, n |-> 0, joined |-> 0,
     fresh_after |-> -1, branch |-> "none", via |-> "none"]

\* The textDocument/diagnostic requests, numbered as their handlers start.
Pulls == 1..MaxPulls

\* The collectors registered with `collect` that apply to the document.
Collectors == {"k1", "k2"}

\* DiagnosticsData.entries: per collector 0 for no entry, -1 for an entry that is
\* None, else a list of diagnostics, named by the version its run was made for.
NoEntries == [k \in Collectors |-> 0]

\* str(uuid.uuid4()) for the id of a run record: a value no other call draws,
\* here the number of the record and how many ids the record has had before.
\* NoId stands for None.
RunId(r, n) == <<r, n>>
NoId == <<0, 0>>

\* A handler that has not started: its previous_result_id, its
\* locals `data` and `task` (0 for None), whether it took the branch of line
\* 291, the entries it has read for its report, and (history) the version of
\* the document the test of line 291 read, while the handler is on that branch.
IdlePull ==
    [pc |-> "idle", previous_result_id |-> NoId, data |-> 0, task |-> 0, rerun |-> FALSE,
     entries |-> NoEntries, version |-> 0]

\* The keys of self._data: the diagnostics part of the protocol and another
\* extension.
DataKeys == {"diagnostics", "extension"}

\* History of a key: no value stored (or cleared since); else the value set_data
\* stored last and the number of calls the editor had made by then.
NotStored == [value |-> 0, at |-> 0]

\* A document created with the text orig whose text is `text` now, with nothing
\* under way: apply_full_change(None, text) sets _text alone and leaves the
\* version, and _orig_text moves only with save=True.
DocumentWith(text, orig) ==
    /\ doc_text = text
    /\ doc_version = 1
    /\ doc_lines = NoLines
    /\ doc_lock = NewLock
    /\ doc_cache = NoSlots
    /\ doc_entries = [p \in Callers |-> CacheEntry]
    /\ doc_calls = [p \in Coroutines |-> IdleCall]
    /\ doc_runs = 0
    /\ doc_orig_text = orig
    /\ doc_orig_version = 1
    /\ doc_data = [k \in DataKeys |-> 0]
    /\ doc_stored = [k \in DataKeys |-> NotStored]
    /\ diag_records = <<>>
    /\ diag_tasks = <<>>
    /\ diag_pulls = [h \in Pulls |-> IdlePull]
    /\ diag_responses = <<>>
    /\ diag_signals = 0
    /\ diag_forced = 0

\* TextDocument(document_uri, text, language_id, version); nothing called yet.
DocumentInit(text) == DocumentWith(text, text)

\* The text documents are created with in the specifications of the protocol.
SomeText == <<"a", "NL">>

\* What no call on the document changes but set_data, clear and invalidate_data.
Others == <<rpcVars, regVars, bindVars, peer_sent, doc_orig_version, dataVars, diagVars>>

\* A CacheEntry that neither self._cache nor a running get_cache refers to is
\* gone.
Collect(entries, cache, calls) ==
    [i \in DOMAIN entries |->
        IF (\E c \in DOMAIN cache : cache[c] = i) \/ (\E p \in DOMAIN calls : calls[p].e = i)
        THEN entries[i] ELSE CacheEntry]

\* A call returns or raises: of the call its name, its consumer, its result,
\* its branch and the operation that awaited it (save, revert) are kept.
CallReturned(call, result, branch) ==
    [IdleCall EXCEPT !.op = call.op, !.consumer = call.consumer, !.n = call.n,
                     !.result = result, !.branch = branch, !.via = call.via]

\* `async with self._lock`: the coroutine waits until the lock is free, then holds it.
AcquireDocLock(p) ==
    /\ doc_calls[p].pc = "doc_lock"
    /\ ~Locked(doc_lock)
    /\ doc_lock' = Acquire(doc_lock, p)
    /\ doc_calls' = [doc_calls EXCEPT ![p].pc = "in_doc_lock"]
    /\ UNCHANGED <<Others, doc_orig_text, doc_text, doc_version, doc_lines, doc_cache, doc_entries, doc_runs>>

\* The editor calls one of the operations that start with `async with self._lock`.
\* version 0 stands for None.
EditorCallsWithin(max, op, version, range, text, consumer, via) ==
    /\ doc_calls[Editor].pc = "idle"
    /\ doc_calls[Editor].n < max
    /\ doc_calls' = [doc_calls EXCEPT ![Editor] =
           [IdleCall EXCEPT !.op = op, !.pc = "doc_lock", !.version = version, !.range = range,
                            !.text = text, !.consumer = consumer, !.via = via,
                            !.n = doc_calls[Editor].n + 1]]
    /\ UNCHANGED <<Others, doc_orig_text, doc_text, doc_version, doc_lines, doc_lock, doc_cache,
                   doc_entries, doc_runs>>

EditorCalls(op, version, range, text, consumer) ==
    EditorCallsWithin(MaxEdits, op, version, range, text, consumer, "none")

\* The block of the editor's call ends with the cache as given: the lock is freed
\* and the result handed back.
EditorReturns(cache, result, branch) ==
    /\ doc_lock' = Release(doc_lock)
    /\ doc_cache' = cache
    /\ doc_calls' = [doc_calls EXCEPT ![Editor] =
           CallReturned([doc_calls[Editor] EXCEPT !.consumer = "none"], result, branch)]
    /\ doc_entries' = Collect(doc_entries, cache, doc_calls)
    /\ UNCHANGED <<Others, doc_runs>>

\* The mutant of InvalidateCache: only slots whose data is computed are dropped.
InvalidateCacheComputedOnly(cache, entries) ==
    [c \in DOMAIN cache |->
        IF cache[c] # 0 /\ entries[cache[c]].data = 0 THEN cache[c] ELSE 0]

\* _invalidate_cache(): self._cache.clear()
InvalidateCache(cache, entries) == [c \in DOMAIN cache |-> 0]

\* The block of apply_none_change.
ApplyNoneChange ==
    /\ doc_calls[Editor].pc = "in_doc_lock" /\ doc_calls[Editor].op = "apply_none_change"
    /\ doc_lines' = NoLines
    /\ EditorReturns(InvalidateCache(doc_cache, doc_entries), ReturnValue(0), "none")
    /\ UNCHANGED <<doc_text, doc_version, doc_orig_text>>

\* The block of apply_full_change(version, text, save=...) (text always given
\* here); save awaits it with save=True and returns None, revert awaits it and
\* returns True.
ApplyFullChange ==
    /\ doc_calls[Editor].pc = "in_doc_lock" /\ doc_calls[Editor].op = "apply_full_change"
    /\ doc_version' = IF doc_calls[Editor].version # 0 THEN doc_calls[Editor].version
                      ELSE doc_version
    /\ doc_text' = doc_calls[Editor].text
    /\ doc_lines' = NoLines
    /\ doc_orig_text' = IF doc_calls[Editor].via = "save" THEN doc_calls[Editor].text
                        ELSE doc_orig_text
    /\ EditorReturns(InvalidateCache(doc_cache, doc_entries),
                     IF doc_calls[Editor].via = "revert" THEN ReturnTrue ELSE ReturnValue(0),
                     "none")

\* How the try block was left (history): by the raise, by the return of the
\* append, or after the loop, and then whether the loop met the start line.
IncrementalBranch(r, lines, range) ==
    IF r.raised THEN "raise" ELSE IF r.appended THEN "append"
    ELSE IF range.start.line < Len(lines) THEN "loop" ELSE "loop_past"

\* The block of apply_incremental_change(version, range, text): the try block and
\* the finally clause.
ApplyIncrementalChange ==
    /\ doc_calls[Editor].pc = "in_doc_lock" /\ doc_calls[Editor].op = "apply_incremental_change"
    /\ doc_version' = IF doc_calls[Editor].version # 0 THEN doc_calls[Editor].version
                      ELSE doc_version
    /\ LET r == IncrementalText(doc_text, doc_lines, doc_calls[Editor].range,
                                doc_calls[Editor].text)
       IN  /\ doc_text' = r.text
           /\ EditorReturns(InvalidateCache(doc_cache, doc_entries),
                            IF r.raised THEN RaisedError ELSE ReturnValue(0),
                            IncrementalBranch(r, GetLines(doc_text, doc_lines),
                                              doc_calls[Editor].range))
    /\ doc_lines' = NoLines
    /\ UNCHANGED doc_orig_text

\* The block of get_lines().
DocGetLines ==
    /\ doc_calls[Editor].pc = "in_doc_lock" /\ doc_calls[Editor].op = "get_lines"
    /\ doc_lines' = <<TRUE, GetLines(doc_text, doc_lines)>>
    /\ EditorReturns(doc_cache, ReturnValue(0), "none")
    /\ UNCHANGED <<doc_text, doc_version, doc_orig_text>>

\* The block of text(): return self._text.
DocText ==
    /\ doc_calls[Editor].pc = "in_doc_lock" /\ doc_calls[Editor].op = "text"
    /\ EditorReturns(doc_cache, ReturnValue(0), "none")
    /\ UNCHANGED <<doc_text, doc_version, doc_lines, doc_orig_text>>

\* The block of invalidate_cache().
DocInvalidateCache ==
    /\ doc_calls[Editor].pc = "in_doc_lock" /\ doc_calls[Editor].op = "invalidate_cache"
    /\ EditorReturns(InvalidateCache(doc_cache, doc_entries), ReturnValue(0), "none")
    /\ UNCHANGED <<doc_text, doc_version, doc_lines, doc_orig_text>>

\* remove_cache_entry(entry) / the weak reference's callback: the block of
\* __remove_cache_entry_safe under the lock.  (Its first test outside the lock
\* only saves taking the lock.)
RemoveCacheEntry ==
    /\ doc_calls[Editor].pc = "in_doc_lock" /\ doc_calls[Editor].op = "remove_cache_entry"
    /\ EditorReturns([doc_cache EXCEPT ![doc_calls[Editor].consumer] = 0], ReturnValue(0), "none")
    /\ UNCHANGED <<doc_text, doc_version, doc_lines, doc_orig_text>>

\* The mutant of InvalidateData: the value of the diagnostics part is kept.
InvalidateDataButOne(data) == [k \in DOMAIN data |-> IF k = "diagnostics" THEN data[k] ELSE 0]

\* _invalidate_data(): self._data.clear()
InvalidateData(data) == [k \in DOMAIN data |-> 0]

\* The block of the editor's call ends with the data gone.
EditorReturnsCleared(cache) ==
    /\ doc_lock' = Release(doc_lock)
    /\ doc_cache' = cache
    /\ doc_calls' = [doc_calls EXCEPT ![Editor] =
           CallReturned([doc_calls[Editor] EXCEPT !.consumer = "none"], ReturnValue(0), "none")]
    /\ doc_entries' = Collect(doc_entries, cache, doc_calls)
    /\ doc_data' = InvalidateData(doc_data)
    /\ doc_stored' = [k \in DataKeys |-> NotStored]
    /\ UNCHANGED <<rpcVars, regVars, bindVars, peer_sent, doc_orig_version, doc_orig_text,
                   doc_runs, doc_text, doc_version, diagVars>>

\* The block of invalidate_data().
DocInvalidateData ==
    /\ doc_calls[Editor].pc = "in_doc_lock" /\ doc_calls[Editor].op = "invalidate_data"
    /\ EditorReturnsCleared(doc_cache)
    /\ UNCHANGED doc_lines

\* The block of clear(): _clear().
DocClear ==
    /\ doc_calls[Editor].pc = "in_doc_lock" /\ doc_calls[Editor].op = "clear"
    /\ doc_lines' = NoLines
    /\ EditorReturnsCleared(InvalidateCache(doc_cache, doc_entries))

\* The mutant of SetDataItem: a key that holds a value keeps it.
SetDataItemOnce(data, key, value) ==
    IF data[key] # 0 THEN data ELSE [data EXCEPT ![key] = value]

\* self._data[key] = data
SetDataItem(data, key, value) == [data EXCEPT ![key] = value]

\* self._data.get(key, default)
GetData(data, key, default) == IF data[key] # 0 THEN data[key] ELSE default

\* What set_data(key, data) does to the document: no lock is taken.
StoreData(key, value) ==
    /\ doc_data' = SetDataItem(doc_data, key, value)
    /\ doc_stored' = [doc_stored EXCEPT ![key] = [value |-> value, at |-> doc_calls[Editor].n]]

\* set_data(key, data), called by an extension.
SetData(key, value) ==
    /\ StoreData(key, value)
    /\ UNCHANGED <<rpcVars, regVars, bindVars, peer_sent, doc_text, doc_version, doc_lines,
                   doc_lock, doc_cache, doc_entries, doc_calls, doc_runs, doc_orig_text,
                   doc_orig_version, diagVars>>

\* revert(version): with nothing to revert it returns False at once; else it
\* awaits apply_full_change(version or self._orig_version, self._orig_text).
Revert(max, version) ==
    IF doc_orig_text # doc_text \/ doc_orig_version # doc_version
    THEN EditorCallsWithin(max, "apply_full_change",
                           IF version # 0 THEN version ELSE doc_orig_version,
                           NoRange, doc_orig_text, "none", "revert")
    ELSE /\ doc_calls[Editor].pc = "idle"
         /\ doc_calls[Editor].n < max
         /\ doc_calls' = [doc_calls EXCEPT ![Editor] =
                [IdleCall EXCEPT !.op = "revert", !.n = doc_calls[Editor].n + 1,
                                 !.result = ReturnFalse]]
         /\ UNCHANGED <<Others, doc_orig_text, doc_text, doc_version, doc_lines, doc_lock,
                        doc_cache, doc_entries, doc_runs>>

\* get_cache after e is known: `if e.data is None` sends the call to e.lock, else
\* it returns e.data.
GetCacheWithEntry(call, e, entries) ==
    IF entries[e].data = 0
    THEN [call EXCEPT !.pc = "entry_lock", !.e = e, !.joined = entries[e].running]
    ELSE CallReturned(call, ReturnValue(entries[e].data), "none")

\* get_cache(entry) is called: the lookup outside the lock, up to the first wait
\* or the return.  The callers are numbered in the order of their calls, and the
\* consumers named so that the first call is for c1.
GetCacheBegin(p, consumer) ==
    /\ p \in Callers
    /\ doc_calls[p].pc = "idle" /\ doc_calls[p].n = 0
    /\ \A q \in Callers : q < p => doc_calls[q].n = 1
    /\ p = 1 => consumer = "c1"
    /\ LET call == [IdleCall EXCEPT !.op = "get_cache", !.consumer = consumer, !.n = 1,
                                    !.fresh_after = IF doc_cache[consumer] = 0
                                                    THEN doc_runs ELSE -1]
       IN  doc_calls' = [doc_calls EXCEPT ![p] =
               IF doc_cache[consumer] = 0 THEN [call EXCEPT !.pc = "doc_lock"]
               ELSE GetCacheWithEntry(call, doc_cache[consumer], doc_entries)]
    /\ UNCHANGED <<Others, doc_orig_text, doc_text, doc_version, doc_lines, doc_lock, doc_cache, doc_entries,
                   doc_runs>>

\* The mutant of GetCacheInLock: the rest of get_cache is inside the block, the
\* lock of the document is kept.
GetCacheInLockKept(p) ==
    /\ doc_calls[p].pc = "in_doc_lock" /\ doc_calls[p].op = "get_cache"
    /\ LET c == doc_calls[p].consumer
           e == IF doc_cache[c] = 0 THEN p ELSE doc_cache[c]
       IN  /\ doc_cache' = [doc_cache EXCEPT ![c] = e]
           /\ doc_calls' = [doc_calls EXCEPT ![p] = GetCacheWithEntry(doc_calls[p], e, doc_entries)]
    /\ UNCHANGED <<Others, doc_orig_text, doc_text, doc_version, doc_lines, doc_lock, doc_entries, doc_runs>>

\* The block of get_cache under self._lock: look up again, make the entry when
\* there is none; then on to e.data.
GetCacheInLock(p) ==
    /\ doc_calls[p].pc = "in_doc_lock" /\ doc_calls[p].op = "get_cache"
    /\ LET c == doc_calls[p].consumer
           e == IF doc_cache[c] = 0 THEN p ELSE doc_cache[c]
       IN  /\ doc_cache' = [doc_cache EXCEPT ![c] = e]
           /\ doc_calls' = [doc_calls EXCEPT ![p] = GetCacheWithEntry(doc_calls[p], e, doc_entries)]
    /\ doc_lock' = Release(doc_lock)
    /\ UNCHANGED <<Others, doc_orig_text, doc_text, doc_version, doc_lines, doc_entries, doc_runs>>

\* The mutant of AcquireEntryLockData: the data is not looked at again.
AcquireEntryLockDataUnchecked(entry) == 0

\* `if e.data is None` under e.lock: what the test reads.
AcquireEntryLockData(entry) == entry.data

\* `async with e.lock`: the call waits until the lock of its entry is free; then it
\* starts the computation when e.data is still None, else frees the lock and
\* returns e.data.
AcquireEntryLock(p) ==
    /\ doc_calls[p].pc = "entry_lock"
    /\ LET e == doc_calls[p].e IN
       /\ ~Locked(doc_entries[e].lock)
       /\ IF AcquireEntryLockData(doc_entries[e]) = 0
          THEN /\ doc_entries' = [doc_entries EXCEPT ![e].lock = Acquire(doc_entries[e].lock, p),
                                                    ![e].running = doc_runs + 1]
               /\ doc_runs' = doc_runs + 1
               /\ doc_calls' = [q \in DOMAIN doc_calls |->
                      IF q = p THEN [doc_calls[q] EXCEPT !.pc = "computing"]
                      ELSE IF doc_calls[q].pc = "entry_lock" /\ doc_calls[q].e = e
                           THEN [doc_calls[q] EXCEPT !.joined = doc_runs + 1]
                           ELSE doc_calls[q]]
          ELSE LET calls == [doc_calls EXCEPT ![p] =
                                CallReturned(doc_calls[p], ReturnValue(doc_entries[e].data), "none")]
               IN  /\ doc_calls' = calls
                   /\ doc_entries' = Collect(doc_entries, doc_cache, calls)
                   /\ UNCHANGED doc_runs
    /\ UNCHANGED <<Others, doc_orig_text, doc_text, doc_version, doc_lines, doc_lock, doc_cache>>

\* How `await entry(self, ...)` ends: with a value, with the value None, or with an
\* exception.
Outcomes == {"value", "none", "raise"}

\* `e.data = await entry(self, ...)` ends; the value of run r is r.  e.lock is
\* freed, and the call returns e.data or lets the exception through.
ComputationEnds(p, outcome) ==
    /\ doc_calls[p].pc = "computing"
    /\ LET e == doc_calls[p].e
           data == IF outcome = "value" THEN doc_entries[e].running ELSE 0
           calls == [doc_calls EXCEPT ![p] =
                        CallReturned(doc_calls[p],
                                 IF outcome = "raise" THEN RaisedError ELSE ReturnValue(data),
                                 "none")]
       IN  /\ doc_entries' = Collect([doc_entries EXCEPT ![e].data = data,
                                                         ![e].lock = Release(doc_entries[e].lock),
                                                         ![e].running = 0],
                                     doc_cache, calls)
           /\ doc_calls' = calls
    /\ UNCHANGED <<Others, doc_orig_text, doc_text, doc_version, doc_lines, doc_lock, doc_cache, doc_runs>>

----------------------------------------------------------------------------
(* DiagnosticsProtocolPart, for one document.  The handlers of                 *)
(* textDocument/diagnostic are @threaded: each runs in a worker thread, beside  *)
(* the main loop and beside the diagnostics loop, the thread on which the      *)
(* tasks of _get_diagnostics_for_document run.  A step of the model is what a   *)
(* thread does between two accesses to what the threads share; a task gives    *)
(* way to the callbacks of its loop only where it awaits.                       *)

\* What no step of the diagnostics part changes.
fixedDiag ==
    <<rpcVars, regVars, bindVars, peer_sent, doc_text, doc_version, doc_lines, doc_lock,
      doc_cache, doc_entries, doc_calls, doc_runs, doc_orig_text, doc_orig_version,
      doc_opened_in_editor, diag_refresh_support, diag_worker>>

\* The r-th DiagnosticsData made, by DiagnosticsData() or by
\* DiagnosticsData(str(uuid.uuid4())): a new id, entries empty, version None,
\* task None, force False.
DiagnosticsData(r) ==
    [id |-> RunId(r, 0), entries |-> NoEntries, version |-> 0, task |-> 0, force |-> FALSE]

\* A task of _get_diagnostics_for_document(document, data) that create_sub_task
\* made: where it is, the cancellation asked of it, what each collector
\* answered, the result in hand, collected_keys, whether an exception other
\* than CancelledError is on its way out, and (history) how many times it has
\* awaited refresh.
DiagnosticsTask(data) ==
    [data |-> data, pc |-> "sleep", cancel |-> "none",
     results |-> [k \in Collectors |-> "pending"], cur |-> "none", collected_keys |-> {},
     raised |-> FALSE, refreshes |-> 0]

\* task.done()
TaskDone(task) == task.pc \in {"done", "cancelled", "failed"}

\* The mutant of RerunRequired: the force flag is not looked at.
RerunRequiredUnforced(data, version) == version # data.version \/ data.task = 0

\* `data.force or document.version != data.version or data.task is None`
RerunRequired(data, version) == data.force \/ version # data.version \/ data.task = 0

\* get_diagnostics_data(document): the record the document holds for the part,
\* a new one (with a new id) when it holds none.  `r` is the record, `records`
\* the records the call leaves.
GetDiagnosticsData ==
    IF GetData(doc_data, "diagnostics", 0) # 0
    THEN [r |-> GetData(doc_data, "diagnostics", 0), records |-> diag_records, made |-> FALSE]
    ELSE [r |-> Len(diag_records) + 1,
          records |-> Append(diag_records, DiagnosticsData(Len(diag_records) + 1)),
          made |-> TRUE]

\* What get_diagnostics_data does to the document.
GotDiagnosticsData(g) ==
    IF g.made THEN StoreData("diagnostics", g.r) ELSE UNCHANGED dataVars

\* The client sends textDocument/diagnostic with the id of a report it has seen,
\* or with none, and the handler starts in its thread.  Lines 289-293: data =
\* get_diagnostics_data(document), the test, task = data.task.
PullCheck(h, previous_result_id) ==
    /\ diag_pulls[h].pc = "idle"
    /\ h > 1 => diag_pulls[h - 1].pc # "idle"
    /\ LET g == GetDiagnosticsData
           rerun == RerunRequired(g.records[g.r], doc_version)
       IN /\ diag_records' = g.records
          /\ GotDiagnosticsData(g)
          /\ diag_pulls' = [diag_pulls EXCEPT ![h] =
                 [@ EXCEPT !.pc = IF rerun THEN "install" ELSE "compare",
                           !.previous_result_id = previous_result_id,
                           !.data = g.r, !.rerun = rerun,
                           !.task = IF rerun THEN g.records[g.r].task ELSE 0,
                           !.version = IF rerun THEN doc_version ELSE 0]]
    /\ UNCHANGED <<fixedDiag, diag_tasks, diag_responses, diag_signals, diag_forced>>

\* Lines 295-296: data = DiagnosticsData(); document.set_data(self, data)
PullInstall(h) ==
    /\ diag_pulls[h].pc = "install"
    /\ diag_records' = Append(diag_records, DiagnosticsData(Len(diag_records) + 1))
    /\ StoreData("diagnostics", Len(diag_records) + 1)
    /\ diag_pulls' = [diag_pulls EXCEPT ![h] =
           [@ EXCEPT !.pc = "schedule", !.data = Len(diag_records) + 1]]
    /\ UNCHANGED <<fixedDiag, diag_tasks, diag_responses, diag_signals, diag_forced>>

\* Lines 298-300: task.cancel is handed to the loop of the task, which will call
\* it; nothing is awaited.
CancelPosted(runs, t) ==
    IF t # 0 /\ ~TaskDone(runs[t]) /\ runs[t].cancel = "none"
    THEN [runs EXCEPT ![t].cancel = "posted"]
    ELSE runs

\* Lines 298-307: the cancellation of the task found, then data.version =
\* document.version; data.task = create_sub_task(...)
PullSchedule(h) ==
    /\ diag_pulls[h].pc = "schedule"
    /\ diag_records' = [diag_records EXCEPT ![diag_pulls[h].data] =
           [@ EXCEPT !.version = doc_version, !.task = Len(diag_tasks) + 1]]
    /\ diag_tasks' = Append(CancelPosted(diag_tasks, diag_pulls[h].task),
                            DiagnosticsTask(diag_pulls[h].data))
    /\ diag_pulls' = [diag_pulls EXCEPT ![h] = [@ EXCEPT !.pc = "compare", !.version = 0]]
    /\ UNCHANGED <<fixedDiag, dataVars, diag_responses, diag_signals, diag_forced>>

\* RelatedUnchangedDocumentDiagnosticReport(result_id=id)
UnchangedReport(id) == [kind |-> "unchanged", id |-> id, entries |-> NoEntries]

\* RelatedFullDocumentDiagnosticReport(items, result_id=id)
FullReport(entries, id) == [kind |-> "full", id |-> id, entries |-> entries]

\* The handler has returned.
PullReturned(pull) == [IdlePull EXCEPT !.pc = "returned"]

\* list(itertools.chain(*(e for e in data.entries.values() if e is not None)))
Aggregated(entries) == [k \in Collectors |-> IF entries[k] > 0 THEN entries[k] ELSE 0]

\* Lines 323-327: the test `data.id == previous_result_id`, and for the full
\* report its first argument, the items.  The record is shared with the task
\* of the run, which is on another thread: the id the report will carry is
\* read again, after the test.
PullCompare(h) ==
    /\ diag_pulls[h].pc = "compare"
    /\ LET data == diag_records[diag_pulls[h].data]
       IN diag_pulls' = [diag_pulls EXCEPT ![h] =
              IF data.id = diag_pulls[h].previous_result_id
              THEN [@ EXCEPT !.pc = "unchanged_id"]
              ELSE [@ EXCEPT !.pc = "id", !.entries = Aggregated(data.entries)]]
    /\ UNCHANGED <<fixedDiag, dataVars, diag_records, diag_tasks, diag_responses, diag_signals,
                   diag_forced>>

\* The mutant of PullReport: the full report whatever the test said.
PullReportFull(pull, id) == FullReport(pull.entries, id)

\* The report the handler makes of what it holds and of data.id as it is now.
PullReport(pull, id) ==
    IF pull.pc = "unchanged_id" THEN UnchangedReport(id) ELSE FullReport(pull.entries, id)

\* Lines 324 and 326-328: result_id=data.id, and the return.
PullRespond(h) ==
    /\ diag_pulls[h].pc \in {"unchanged_id", "id"}
    /\ diag_responses' = Append(diag_responses,
           PullReport(diag_pulls[h], diag_records[diag_pulls[h].data].id))
    /\ diag_pulls' = [diag_pulls EXCEPT ![h] = PullReturned(@)]
    /\ UNCHANGED <<fixedDiag, dataVars, diag_records, diag_tasks, diag_signals,
                   diag_forced>>

\* refresh(): without the client's refresh_support nothing is sent; with it
\* send_request_async is called with the method alone, and its `params` has no
\* default (protocol.py, line 541): the call raises TypeError and nothing is sent.
Refresh(refresh_support) ==
    IF refresh_support THEN [raised |-> TRUE, sent |-> 0] ELSE [raised |-> FALSE, sent |-> 0]

\* force_refresh_document(document), on the main loop.
ForceRefreshDocument ==
    /\ diag_forced < MaxTriggers
    /\ diag_forced' = diag_forced + 1
    /\ LET g == GetDiagnosticsData
       IN /\ diag_records' = [g.records EXCEPT ![g.r].force = TRUE]
          /\ GotDiagnosticsData(g)
    /\ diag_signals' = IF doc_opened_in_editor THEN diag_signals + Refresh(diag_refresh_support).sent
                       ELSE diag_signals
    /\ UNCHANGED <<fixedDiag, diag_tasks, diag_pulls, diag_responses>>

\* An edit on the main loop while nothing else calls the document:
\* apply_full_change(version, text) finds the lock free and runs through, and of
\* what it writes the diagnostics part reads the version.
DocumentChanged(version, text) ==
    /\ doc_calls[Editor].pc = "idle"
    /\ doc_calls[Editor].n < MaxEdits
    /\ ~Locked(doc_lock)
    /\ doc_version' = version
    /\ doc_text' = text
    /\ doc_lines' = NoLines
    /\ doc_cache' = InvalidateCache(doc_cache, doc_entries)
    /\ doc_entries' = Collect(doc_entries, InvalidateCache(doc_cache, doc_entries), doc_calls)
    /\ doc_calls' = [doc_calls EXCEPT ![Editor] =
           [IdleCall EXCEPT !.op = "apply_full_change", !.n = doc_calls[Editor].n + 1,
                            !.result = ReturnValue(0)]]
    /\ UNCHANGED <<Others, doc_orig_text, doc_lock, doc_runs>>

\* The mutant of CancelAt: a task cancelled in its delay goes on.
CancelAtIgnoredInDelay(pc) == IF pc = "next" THEN "finally" ELSE pc

\* Where task.cancel() sends a task that awaits at pc: asyncio.sleep(0.75) is
\* above the try, so CancelledError leaves the coroutine; in the loop of the
\* results it is caught by `except asyncio.CancelledError`, and `finally` runs.
CancelAt(pc) == IF pc = "sleep" THEN "cancelled" ELSE IF pc = "next" THEN "finally" ELSE pc

\* The loop of the task calls task.cancel() while the task is at an await (on a
\* task that is done the call changes nothing).
CancelDelivered(t) ==
    /\ diag_tasks[t].cancel = "posted"
    /\ diag_tasks[t].pc \in {"sleep", "next"}
    /\ diag_tasks' = [diag_tasks EXCEPT ![t] =
           [@ EXCEPT !.pc = CancelAt(@),
                     !.cancel = IF diag_tasks[t].pc = "sleep" THEN "in_delay"
                                ELSE "in_collect"]]
    /\ UNCHANGED <<fixedDiag, dataVars, diag_records, diag_pulls, diag_responses, diag_signals, diag_forced>>

\* asyncio.sleep(0.75) returns; self.collect(...) calls the collectors.
DelayElapsed(t) ==
    /\ diag_tasks[t].pc = "sleep"
    /\ diag_tasks' = [diag_tasks EXCEPT ![t].pc = "next"]
    /\ UNCHANGED <<fixedDiag, dataVars, diag_records, diag_pulls, diag_responses, diag_signals, diag_forced>>

\* What a collector answers: a list of diagnostics, None, or an exception.
Answers == {"diagnostics", "none", "raise"}

\* Lines 249-260: the next result of `collect` (return_exceptions=True), and
\* check_canceled; an exception is logged and the loop goes on, any other
\* result gives the record a new id: data.id = str(uuid.uuid4()).  The
\* collectors are named in the order in which they answer.
ResultArrives(t, key, answer) ==
    /\ diag_tasks[t].pc = "next"
    /\ diag_tasks[t].results[key] = "pending"
    /\ key = "k2" => diag_tasks[t].results["k1"] # "pending"
    /\ diag_tasks' = [diag_tasks EXCEPT ![t] =
           [@ EXCEPT !.results[key] = answer,
                     !.cur = IF answer = "raise" THEN "none" ELSE key,
                     !.pc = IF answer = "raise" THEN "next" ELSE "write_entries"]]
    /\ diag_records' =
           IF answer = "raise" THEN diag_records
           ELSE [diag_records EXCEPT ![diag_tasks[t].data].id = RunId(@[1], @[2] + 1)]
    /\ UNCHANGED <<fixedDiag, dataVars, diag_pulls, diag_responses, diag_signals, diag_forced>>

\* Every collector has answered: the `async for` ends.
CollectEnds(t) ==
    /\ diag_tasks[t].pc = "next"
    /\ \A k \in Collectors : diag_tasks[t].results[k] # "pending"
    /\ diag_tasks' = [diag_tasks EXCEPT ![t].pc = "finally"]
    /\ UNCHANGED <<fixedDiag, dataVars, diag_records, diag_pulls, diag_responses, diag_signals, diag_forced>>

\* Line 261: data.entries[result.key] = result.diagnostics
EntryWritten(data, key, answer) ==
    [data.entries EXCEPT ![key] = IF answer = "none" THEN -1 ELSE data.version]

\* Lines 261-265: the entry, collected_keys, and whether refresh is awaited.
WriteEntries(t) ==
    /\ diag_tasks[t].pc = "write_entries"
    /\ LET task == diag_tasks[t]
           answer == task.results[task.cur]
       IN /\ diag_records' = [diag_records EXCEPT ![task.data].entries =
                 EntryWritten(diag_records[task.data], task.cur, answer)]
          /\ diag_tasks' = [diag_tasks EXCEPT ![t] =
                 [@ EXCEPT !.collected_keys =
                               IF answer = "none" THEN @ ELSE @ \cup {task.cur},
                           !.pc = IF doc_opened_in_editor THEN "refresh" ELSE "next"]]
    /\ UNCHANGED <<fixedDiag, dataVars, diag_pulls, diag_responses, diag_signals,
                   diag_forced>>

\* The mutant of RunRefresh: the request is sent and the run waits for the
\* client's answer.
RunRefreshAwaitsReply(t) ==
    /\ diag_tasks[t].pc = "refresh"
    /\ diag_signals' = diag_signals + (IF diag_refresh_support THEN 1 ELSE 0)
    /\ diag_tasks' = [diag_tasks EXCEPT ![t] =
           [@ EXCEPT !.cur = "none", !.refreshes = @ + 1,
                     !.pc = IF diag_refresh_support THEN "reply" ELSE "next"]]
    /\ UNCHANGED <<fixedDiag, dataVars, diag_records, diag_pulls, diag_responses,
                   diag_forced>>

\* Line 266: await self.refresh()
RunRefresh(t) ==
    /\ diag_tasks[t].pc = "refresh"
    /\ LET r == Refresh(diag_refresh_support)
       IN /\ diag_signals' = diag_signals + r.sent
          /\ diag_tasks' = [diag_tasks EXCEPT ![t] =
                 [@ EXCEPT !.cur = "none", !.raised = r.raised, !.refreshes = @ + 1,
                           !.pc = IF r.raised THEN "finally" ELSE "next"]]
    /\ UNCHANGED <<fixedDiag, dataVars, diag_records, diag_pulls, diag_responses,
                   diag_forced>>

\* Lines 271-272: for k in set(data.entries.keys()) - set(collected_keys): pop
Pruned(entries, collected_keys) ==
    [k \in Collectors |-> IF k \in collected_keys THEN entries[k] ELSE 0]

\* `finally`, and the end of the task: with the exception that is on its way
\* out, or normally.
RunFinally(t) ==
    /\ diag_tasks[t].pc = "finally"
    /\ diag_records' = [diag_records EXCEPT ![diag_tasks[t].data].entries =
           Pruned(@, diag_tasks[t].collected_keys)]
    /\ diag_tasks' = [diag_tasks EXCEPT ![t] =
           [@ EXCEPT !.cur = "none",
                     !.pc = IF diag_tasks[t].raised THEN "failed" ELSE "done"]]
    /\ UNCHANGED <<fixedDiag, dataVars, diag_pulls, diag_responses, diag_signals,
                   diag_forced>>

----------------------------------------------------------------------------
(* The diagnostics worker: the thread that runs the diagnostics loop, started  *)
(* by the first call that finds no loop.  A step is what a thread does between *)
(* two accesses to what the threads share.                                     *)

\* What no step of a caller or of a worker thread changes.
fixedWorker ==
    <<rpcVars, regVars, bindVars, peer_sent, doc_text, doc_version, doc_lines, doc_lock,
      doc_cache, doc_entries, doc_calls, doc_runs, doc_orig_text, doc_orig_version, dataVars,
      doc_opened_in_editor, diag_refresh_support, diag_records, diag_tasks, diag_pulls,
      diag_responses, diag_signals, diag_forced>>

\* The threads that call diagnostics_loop or, through `initialized`,
\* _ensure_diagnostics_thread_started.
Starters == 1..MaxStarters

\* A thread that has no call under way; n counts its calls.
IdleStart == [op |-> "none", pc |-> "idle", n |-> 0]

\* __init__, lines 125-127: no loop (0 for None), the lock free (0 for no
\* owner), the event clear; no thread started, nobody calling; `returned` is
\* history: the loops diagnostics_loop has returned.
NoWorker ==
    [diagnostics_loop |-> 0, diagnostics_loop_lock |-> 0, diagnostics_started |-> FALSE,
     threads |-> <<>>, calls |-> <<>>, returned |-> {}]

\* The worker once `initialized` has started it, with nobody calling.
WorkerStarted ==
    [NoWorker EXCEPT !.diagnostics_loop = 1, !.diagnostics_started = TRUE,
                     !.threads = <<"run_forever">>]

\* Where a call goes once _ensure_diagnostics_thread_started has returned.
AfterEnsure(op) == IF op = "diagnostics_loop" THEN "assert" ELSE "returned"

\* A thread calls the property diagnostics_loop, which tests
\* `self._diagnostics_loop is None` (line 137) without the lock, or the
\* handler `initialized` (line 133).
WorkerCalls(c, op) ==
    /\ diag_worker.calls[c].pc \in {"idle", "returned", "raised"}
    /\ diag_worker.calls[c].n < MaxStarts
    /\ diag_worker' = [diag_worker EXCEPT !.calls[c] =
           [op |-> op,
            pc |-> IF op = "diagnostics_loop" /\ diag_worker.diagnostics_loop # 0
                   THEN "assert" ELSE "lock",
            n |-> diag_worker.calls[c].n + 1]]
    /\ UNCHANGED fixedWorker

\* Line 160: `with self._diagnostics_loop_lock`, an RLock another thread holds
\* or nobody.
WorkerLock(c) ==
    /\ diag_worker.calls[c].pc = "lock"
    /\ diag_worker.diagnostics_loop_lock = 0
    /\ diag_worker' = [diag_worker EXCEPT !.diagnostics_loop_lock = c, !.calls[c].pc = "test"]
    /\ UNCHANGED fixedWorker

\* Lines 161-166: the test under the lock; with no loop a thread is made and
\* started, else the block ends and the lock is released.
WorkerTest(c) ==
    /\ diag_worker.calls[c].pc = "test"
    /\ diag_worker' =
           IF diag_worker.diagnostics_loop = 0
           THEN [diag_worker EXCEPT !.threads = Append(@, "new_event_loop"),
                                    !.calls[c].pc = "wait"]
           ELSE [diag_worker EXCEPT !.diagnostics_loop_lock = 0,
                                    !.calls[c].pc = AfterEnsure(diag_worker.calls[c].op)]
    /\ UNCHANGED fixedWorker

\* Line 168: self._diagnostics_started.wait(10) returns True, the event being
\* set; the block ends.
WaitReturns(c) ==
    /\ diag_worker.calls[c].pc = "wait"
    /\ diag_worker.diagnostics_started
    /\ diag_worker' = [diag_worker EXCEPT !.diagnostics_loop_lock = 0,
                                          !.calls[c].pc = AfterEnsure(diag_worker.calls[c].op)]
    /\ UNCHANGED fixedWorker

\* Lines 168-169: ten seconds pass with the event still clear: wait returns
\* False, RuntimeError leaves the block and the call.
WaitTimesOut(c) ==
    /\ diag_worker.calls[c].pc = "wait"
    /\ ~diag_worker.diagnostics_started
    /\ diag_worker' = [diag_worker EXCEPT !.diagnostics_loop_lock = 0,
                                          !.calls[c].pc = "raised"]
    /\ UNCHANGED fixedWorker

\* Lines 140-142: assert self._diagnostics_loop is not None; return it.
WorkerReturns(c) ==
    /\ diag_worker.calls[c].pc = "assert"
    /\ diag_worker' =
           IF diag_worker.diagnostics_loop = 0
           THEN [diag_worker EXCEPT !.calls[c].pc = "raised"]
           ELSE [diag_worker EXCEPT !.calls[c].pc = "returned",
                                    !.returned = @ \cup {diag_worker.diagnostics_loop}]
    /\ UNCHANGED fixedWorker

\* _run_diagnostics in the thread t, lines 145-148: the thread makes its loop
\* (the loop t) and assigns it to self._diagnostics_loop.
ThreadSetsLoop(t) ==
    /\ diag_worker.threads[t] = "new_event_loop"
    /\ diag_worker' = [diag_worker EXCEPT !.diagnostics_loop = t, !.threads[t] = "set"]
    /\ UNCHANGED fixedWorker

\* Lines 149-153: self._diagnostics_started.set(), and the loop runs.
ThreadSetsEvent(t) ==
    /\ diag_worker.threads[t] = "set"
    /\ diag_worker' = [diag_worker EXCEPT !.diagnostics_started = TRUE,
                                          !.threads[t] = "run_forever"]
    /\ UNCHANGED fixedWorker

----------------------------------------------------------------------------
(* State. *)

Task(m) == [msg |-> m, state |-> "scheduled", outcome |-> "none"]

\* A Response (code 0) or Error that send_data writes; `by` is history: the index
\* of the handle_message task that wrote it, 0 for data_received.
Written(kind, id, code, by) == [kind |-> kind, id |-> id, code |-> code, by |-> by]

ProtocolInit ==
    /\ connection = "none"
    /\ wire = <<>>
    /\ frames = <<>>
    /\ message_buf = <<>>
    /\ tasks = <<>>
    /\ sent = <<>>
    /\ requests_written = {}
    /\ request_futures = <<>>
    /\ futures = <<>>
    /\ next_id = 1

Init ==
    /\ ProtocolInit /\ RegistryInit /\ BindingIdle /\ peer_sent = <<>> /\ DocumentInit(SomeText)
    /\ doc_opened_in_editor = FALSE /\ diag_refresh_support = FALSE
    /\ diag_worker = NoWorker

\* connection_made: the transport is set.
ConnectionMade ==
    /\ connection = "none"
    /\ connection' = "open"
    /\ UNCHANGED <<nonRpcVars, wire, frames, message_buf, tasks, sent, requests_written, request_futures,
                   futures, next_id>>

\* What data_received makes of each frame of one message that arrives whole on
\* an empty buffer, worked out once: the loop, and the decoding of its bodies.
WholeFrames == {FrameBytes(f) : f \in MessageTokens}
WholeFrameLoop == [data \in WholeFrames |-> DataReceivedLoop(<<>>, data, <<>>)]
WholeFrameBodies == UNION {{WholeFrameLoop[data].out[i] : i \in DOMAIN WholeFrameLoop[data].out} : data \in WholeFrames}
WholeFrameDecoded == [f \in WholeFrameBodies |-> DecodeBody(f)]

ReceivedLoop(buf, data) ==
    IF buf = <<>> /\ data \in WholeFrames THEN WholeFrameLoop[data]
    ELSE DataReceivedLoop(buf, data, <<>>)

Decoded(f) == IF f \in WholeFrameBodies THEN WholeFrameDecoded[f] ELSE DecodeBody(f)

\* The tasks and the PARSE_ERROR replies the complete bodies `out` produce, in order.
RECURSIVE HandleBodies(_, _, _)
HandleBodies(out, ts, ss) ==
    IF out = <<>> THEN [tasks |-> ts, sent |-> ss]
    ELSE LET d == Decoded(Head(out))
             new == [i \in 1..Len(d.msgs) |-> Task(d.msgs[i])]
         IN  HandleBodies(Tail(out), ts \o new,
                 IF d.raised THEN Append(ss, Written("error", NullId, PARSE_ERROR, 0)) ELSE ss)

\* data_received(data), called by the event loop while the connection is open.
DataReceived(data) ==
    /\ connection = "open"
    /\ Len(data) > 0
    /\ LET r == ReceivedLoop(message_buf, data)
           h == HandleBodies(r.out, tasks, sent)
       IN  /\ message_buf' = r.buf
           /\ tasks' = h.tasks
           /\ sent' = h.sent
    /\ UNCHANGED <<nonRpcVars, connection, requests_written, request_futures, futures, next_id>>

\* The peer writes one more frame to the stream.
PeerWrites(f) ==
    /\ connection = "open"
    /\ Len(frames) < MaxFrames
    /\ frames' = Append(frames, f)
    /\ wire' = wire \o FrameBytes(f)
    /\ UNCHANGED <<nonRpcVars, connection, message_buf, tasks, sent, requests_written, request_futures,
                   futures, next_id>>

\* The transport delivers the next n bytes of the stream in one chunk.
TransportDelivers(n) ==
    /\ n \in 1..Len(wire)
    /\ DataReceived(Take(wire, n))
    /\ wire' = Drop(wire, n)
    /\ UNCHANGED frames

\* The peer, another instance of this protocol, writes message m with send_data.
PeerSendData(m) ==
    /\ connection = "open"
    /\ Len(peer_sent) < MaxSendData
    /\ peer_sent' = Append(peer_sent, m)
    /\ wire' = wire \o SendDataBytes(m)
    /\ UNCHANGED <<connection, frames, message_buf, tasks, sent, requests_written,
                   request_futures, futures, next_id, regVars, bindVars, docVars>>

NextFraming ==
    \/ ConnectionMade
    \/ \E f \in FramingFrames \cup {"nU"} : PeerWrites(f)
    \/ \E n \in 1..Len(wire) : TransportDelivers(n)

\* The framing under arbitrary chunking of the byte stream.
SpecFraming == Init /\ [][NextFraming]_vars

\* The sizes of the chunks the transport delivers in SpecWire.
WireChunks == {1, 2, Len(wire)}

NextWire ==
    \/ ConnectionMade
    \/ \E m \in SendDataMessages : PeerSendData(m)
    \/ \E n \in WireChunks : TransportDelivers(n)

\* Two instances of the protocol: what one writes with send_data the other
\* receives with data_received.
SpecWire == Init /\ [][NextWire]_vars

----------------------------------------------------------------------------
(* The registry of the protocol instance and parameter binding. *)

NoEntry == [name |-> "none", callable |-> FALSE, isasync |-> FALSE, param_type |-> "none"]

\* The rpc methods of the owner that __ensure_initialized collects: a plain
\* function without a parameter-shape descriptor and a coroutine function with one.
OwnerMethods == {"sync_m", "async_m"}

\* RpcRegistry.get_entry(name): the entry, NoEntry for None.
GetEntry(name) ==
    CASE name = "sync_m"  -> [name |-> name, callable |-> TRUE, isasync |-> FALSE, param_type |-> "none"]
      [] name = "async_m" -> [name |-> name, callable |-> TRUE, isasync |-> TRUE, param_type |-> "T"]
      [] OTHER -> NoEntry

\* `e is None or not callable(e.method)`
NotFound(e) == e = NoEntry \/ ~e.callable

\* _convert_params(e.method, e.param_type, params) raises: only building the typed
\* params object of a descriptor can (param_type(**params)).
ConvertParamsRaises(e, params) ==
    params # "absent" /\ e.param_type # "none" /\ params = "bad"

\* How an invoked handler can end inside the try block: "return", or "raise" when
\* the handler raises or returns a value that message.json() cannot encode (then
\* send_response raises before it writes).  Arguments the handler's signature
\* does not accept (params spread without a descriptor) make the call itself raise.
HandlerOutcomes(e, params) ==
    IF params = "bad" THEN {"raise"} ELSE {"return", "raise"}

----------------------------------------------------------------------------
(* handle_message: one asyncio task per decoded message. *)

\* Tasks created by ensure_future start in creation order.
Runnable(i) ==
    /\ i \in 1..Len(tasks)
    /\ tasks[i].state = "scheduled"
    /\ \A j \in 1..(i - 1) : tasks[j].state # "scheduled"

Finish(i, state, outcome) ==
    tasks' = [tasks EXCEPT ![i].state = state, ![i].outcome = outcome]

\* The mutant of RequestReply: no except clause around the handler call.
RequestReplyNoCatch(m, outcome, by) ==
    IF outcome = "return" THEN <<Written("response", m.id, 0, by)>> ELSE <<>>

\* What handle_request writes once binding and the handler have ended with
\* `outcome`: send_response in the try block, send_error in the except clause.
RequestReply(m, outcome, by) ==
    IF outcome = "return"
    THEN <<Written("response", m.id, 0, by)>>
    ELSE <<Written("error", m.id, INTERNAL_ERROR, by)>>

\* The mutant of UnknownMethodReply: the error does not carry the request's id.
UnknownMethodReplyNoId(m, by) == <<Written("error", NullId, METHOD_NOT_FOUND, by)>>

\* What handle_request writes for a method get_entry does not find.
UnknownMethodReply(m, by) == <<Written("error", m.id, METHOD_NOT_FOUND, by)>>

\* handle_request up to its first suspension: the lookup, the binding, the call of
\* the handler, and for a plain function the reply.
HandleRequest(i) ==
    /\ Runnable(i)
    /\ tasks[i].msg.kind = "request"
    /\ LET m == tasks[i].msg
           e == GetEntry(m.method)
       IN  IF NotFound(e)
           THEN /\ sent' = sent \o UnknownMethodReply(m, i)
                /\ Finish(i, "done", "not_found")
           ELSE IF ConvertParamsRaises(e, m.params)
                THEN /\ sent' = sent \o RequestReply(m, "bind_raise", i)
                     /\ Finish(i, "done", "bind_raise")
                ELSE IF e.isasync
                     THEN /\ sent' = sent
                          /\ Finish(i, "awaiting", "none")
                     ELSE \E o \in HandlerOutcomes(e, m.params) :
                              /\ sent' = sent \o RequestReply(m, o, i)
                              /\ Finish(i, "done", o)
    /\ UNCHANGED <<nonRpcVars, connection, wire, frames, message_buf, requests_written, request_futures,
                   futures, next_id>>

\* `await result` of handle_request returns or raises, and the reply is written.
ResumeRequest(i) ==
    /\ i \in 1..Len(tasks)
    /\ tasks[i].state = "awaiting"
    /\ tasks[i].msg.kind = "request"
    /\ \E o \in HandlerOutcomes(GetEntry(tasks[i].msg.method), tasks[i].msg.params) :
           /\ sent' = sent \o RequestReply(tasks[i].msg, o, i)
           /\ Finish(i, "done", o)
    /\ UNCHANGED <<nonRpcVars, connection, wire, frames, message_buf, requests_written, request_futures,
                   futures, next_id>>

\* The mutant of NotificationReply: the commented-out send_error of
\* handle_notification is live.
NotificationReplyUnknown(m, outcome, by) ==
    IF outcome = "not_found" THEN <<Written("error", NullId, METHOD_NOT_FOUND, by)>> ELSE <<>>

\* What handle_notification writes, whatever the outcome: nothing.
NotificationReply(m, outcome, by) == <<>>

\* handle_notification up to its first suspension.
HandleNotification(i) ==
    /\ Runnable(i)
    /\ tasks[i].msg.kind = "notification"
    /\ LET m == tasks[i].msg
           e == GetEntry(m.method)
       IN  IF NotFound(e)
           THEN /\ sent' = sent \o NotificationReply(m, "not_found", i)
                /\ Finish(i, "done", "not_found")
           ELSE IF ConvertParamsRaises(e, m.params)
                THEN /\ sent' = sent \o NotificationReply(m, "bind_raise", i)
                     /\ Finish(i, "done", "bind_raise")
                ELSE IF e.isasync
                     THEN /\ sent' = sent
                          /\ Finish(i, "awaiting", "none")
                     ELSE \E o \in HandlerOutcomes(e, m.params) :
                              /\ sent' = sent \o NotificationReply(m, o, i)
                              /\ Finish(i, "done", o)
    /\ UNCHANGED <<nonRpcVars, connection, wire, frames, message_buf, requests_written, request_futures,
                   futures, next_id>>

\* `await result` of handle_notification returns or raises.
ResumeNotification(i) ==
    /\ i \in 1..Len(tasks)
    /\ tasks[i].state = "awaiting"
    /\ tasks[i].msg.kind = "notification"
    /\ \E o \in HandlerOutcomes(GetEntry(tasks[i].msg.method), tasks[i].msg.params) :
           /\ sent' = sent \o NotificationReply(tasks[i].msg, o, i)
           /\ Finish(i, "done", o)
    /\ UNCHANGED <<nonRpcVars, connection, wire, frames, message_buf, requests_written, request_futures,
                   futures, next_id>>

----------------------------------------------------------------------------
(* Outgoing requests and their replies. *)

Future(state, value) == [state |-> state, value |-> value]

\* The result types callers of send_request ask for: none, or a type to convert to.
ResultTypes == {"none", "T"}

\* _try_convert_value(value, result_type): without a type the value as it is; with
\* one, the parsed value, and parse_obj raises for a value that does not fit.
TryConvertValue(value, result_type) ==
    IF result_type = "none" THEN [raised |-> FALSE, value |-> value]
    ELSE IF value = "bad" THEN [raised |-> TRUE, value |-> "ValidationError"]
    ELSE [raised |-> FALSE, value |-> "T(ok)"]

\* Removing key id from a dictionary (dict.pop).
Pop(d, id) == [k \in DOMAIN d \ {id} |-> d[k]]

\* handle_response when the id is null or no key of _request_futures.
ResponseUnmatched(m, rf) == m.id = NullId \/ m.id \notin DOMAIN rf

\* The mutant of HandleResponseEffect: the entry is read, not popped.
HandleResponseEffectNoPop(m, rf, futs) ==
    IF ResponseUnmatched(m, rf)
    THEN [rf |-> rf, futs |-> futs, code |-> INTERNAL_ERROR, raised |-> FALSE]
    ELSE LET c == TryConvertValue(m.result, rf[m.id].result_type) IN
         IF futs[m.id].state # "pending"
         THEN [rf |-> rf, futs |-> futs, code |-> 0, raised |-> TRUE]
         ELSE [rf |-> rf,
               futs |-> [futs EXCEPT ![m.id] =
                            Future(IF c.raised THEN "exception" ELSE "result", c.value)],
               code |-> 0, raised |-> FALSE]

\* The mutant of HandleResponseEffect: an unmatched id fails every pending future.
HandleResponseEffectFailAll(m, rf, futs) ==
    IF ResponseUnmatched(m, rf)
    THEN [rf |-> rf,
          futs |-> [k \in DOMAIN futs |->
                       IF futs[k].state = "pending" THEN Future("exception", "unmatched")
                       ELSE futs[k]],
          code |-> INTERNAL_ERROR, raised |-> FALSE]
    ELSE LET c == TryConvertValue(m.result, rf[m.id].result_type) IN
         IF futs[m.id].state # "pending"
         THEN [rf |-> Pop(rf, m.id), futs |-> futs, code |-> 0, raised |-> TRUE]
         ELSE [rf |-> Pop(rf, m.id),
               futs |-> [futs EXCEPT ![m.id] =
                            Future(IF c.raised THEN "exception" ELSE "result", c.value)],
               code |-> 0, raised |-> FALSE]

\* handle_response(m) on the table rf and the futures futs: the new table and
\* futures, the code of the error it sends (0: none) and whether an exception
\* leaves it.  set_result and set_exception raise InvalidStateError on a future
\* that is not pending (one its caller cancelled): the except clause catches the
\* first, the second leaves handle_response.
HandleResponseEffect(m, rf, futs) ==
    IF ResponseUnmatched(m, rf)
    THEN [rf |-> rf, futs |-> futs, code |-> INTERNAL_ERROR, raised |-> FALSE]
    ELSE LET c == TryConvertValue(m.result, rf[m.id].result_type) IN
         IF futs[m.id].state # "pending"
         THEN [rf |-> Pop(rf, m.id), futs |-> futs, code |-> 0, raised |-> TRUE]
         ELSE [rf |-> Pop(rf, m.id),
               futs |-> [futs EXCEPT ![m.id] =
                            Future(IF c.raised THEN "exception" ELSE "result", c.value)],
               code |-> 0, raised |-> FALSE]

\* handle_response: it never suspends.
HandleResponse(i) ==
    /\ Runnable(i)
    /\ tasks[i].msg.kind = "response"
    /\ LET r == HandleResponseEffect(tasks[i].msg, request_futures, futures) IN
       /\ request_futures' = r.rf
       /\ futures' = r.futs
       /\ sent' = IF r.code # 0 THEN Append(sent, Written("error", NullId, r.code, i)) ELSE sent
       /\ Finish(i, IF r.raised THEN "failed" ELSE "done",
                    IF r.raised THEN "raise" ELSE IF r.code # 0 THEN "unmatched" ELSE "return")
    /\ UNCHANGED <<nonRpcVars, connection, wire, frames, message_buf, requests_written, next_id>>

\* handle_error(m) on the table and the futures: `raise NotImplementedError()`.
HandleErrorEffect(m, rf, futs) == [rf |-> rf, futs |-> futs, raised |-> TRUE]

\* handle_error: handle_message reaches it for a JsonRPCError (tested before
\* JsonRPCResponse, its base class).
HandleError(i) ==
    /\ Runnable(i)
    /\ tasks[i].msg.kind = "error"
    /\ LET r == HandleErrorEffect(tasks[i].msg, request_futures, futures) IN
       /\ request_futures' = r.rf
       /\ futures' = r.futs
       /\ Finish(i, IF r.raised THEN "failed" ELSE "done", IF r.raised THEN "raise" ELSE "return")
    /\ UNCHANGED <<nonRpcVars, connection, wire, frames, message_buf, sent, requests_written, next_id>>

\* str(uuid.uuid4()) of the n-th send_request call: an id no earlier call drew.
Uuid4(n) == n

\* The mutant of SendRequestTable: the entry is not recorded.
SendRequestTableUnrecorded(rf, id, fut, result_type) == rf

\* `self._request_futures[id] = _RequestFuturesEntry(result, return_type_or_converter)`
SendRequestTable(rf, id, fut, result_type) ==
    [k \in DOMAIN rf \cup {id} |->
        IF k = id THEN [future |-> fut, result_type |-> result_type] ELSE rf[k]]

\* send_request(method, params, result_type): a new future, a new id, the table
\* entry, then send_data, which writes when the transport is set.
SendRequest(result_type) ==
    /\ next_id <= MaxRequests
    /\ LET id == Uuid4(next_id) IN
       /\ request_futures' = SendRequestTable(request_futures, id, id, result_type)
       /\ futures' = [k \in DOMAIN futures \cup {id} |->
                         IF k = id THEN Future("pending", "none") ELSE futures[k]]
       /\ requests_written' = IF connection # "none" THEN requests_written \cup {id}
                              ELSE requests_written
    /\ next_id' = next_id + 1
    /\ UNCHANGED <<nonRpcVars, connection, wire, frames, message_buf, tasks, sent>>

\* The caller of send_request gives up waiting (a timeout it imposes itself, as
\* asyncio.wait_for does): the future is cancelled.
CancelFuture(id) ==
    /\ id \in DOMAIN futures
    /\ futures[id].state = "pending"
    /\ futures' = [futures EXCEPT ![id] = Future("cancelled", "none")]
    /\ UNCHANGED <<nonRpcVars, connection, wire, frames, message_buf, tasks, sent, requests_written,
                   request_futures, next_id>>

\* The pending-request table after connection_lost(exc), which only schedules
\* connection_lost_event.
ConnectionLostTable(rf) == rf

\* connection_lost(exc).
ConnectionLost ==
    /\ connection = "open"
    /\ connection' = "lost"
    /\ request_futures' = ConnectionLostTable(request_futures)
    /\ UNCHANGED <<nonRpcVars, wire, frames, message_buf, tasks, sent, requests_written, futures, next_id>>

\* A frame of the peer arrives in one chunk.
ReceiveFrame(f) ==
    /\ Len(frames) < MaxFrames
    /\ wire = <<>>
    /\ DataReceived(FrameBytes(f))
    /\ frames' = Append(frames, f)
    /\ UNCHANGED wire

Next ==
    \/ ConnectionMade
    \/ ConnectionLost
    \/ \E t \in MessageTokens : ReceiveFrame(t)
    \/ \E i \in 1..Len(tasks) : HandleRequest(i)
    \/ \E i \in 1..Len(tasks) : ResumeRequest(i)
    \/ \E i \in 1..Len(tasks) : HandleNotification(i)
    \/ \E i \in 1..Len(tasks) : ResumeNotification(i)
    \/ \E i \in 1..Len(tasks) : HandleResponse(i)
    \/ \E i \in 1..Len(tasks) : HandleError(i)
    \/ \E rt \in ResultTypes : SendRequest(rt)
    \/ \E id \in DOMAIN futures : CancelFuture(id)

\* The positions and texts the editor sends.
EditPositions == {Position(l, c) : l \in 0..MaxTextLen, c \in 0..2}
EditRanges == {Range(s, e) : s \in EditPositions, e \in EditPositions}
EditTexts == {<<>>, <<"a">>}
RECURSIVE TextsOf(_)
TextsOf(n) ==
    IF n = 0 THEN {<<>>}
    ELSE TextsOf(n - 1) \cup {Append(t, c) : t \in {u \in TextsOf(n - 1) : Len(u) = n - 1}, c \in Chars}
Texts == TextsOf(MaxTextLen)

\* The editing of one document, whatever its text: the document is created and
\* the editor has set its text since.
InitEdit ==
    /\ ProtocolInit /\ RegistryInit /\ BindingIdle /\ peer_sent = <<>>
    /\ \E text \in Texts : DocumentWith(text, SomeText)
    /\ doc_opened_in_editor = FALSE /\ diag_refresh_support = FALSE
    /\ diag_worker = NoWorker

NextEdit ==
    \/ \E range \in EditRanges, text \in EditTexts :
           EditorCalls("apply_incremental_change", 2, range, text, "none")
    \/ EditorCalls("get_lines", 0, NoRange, <<>>, "none")
    \/ AcquireDocLock(Editor)
    \/ ApplyIncrementalChange
    \/ DocGetLines

SpecEdit == InitEdit /\ [][NextEdit]_vars

\* The ranges of the edits made while the cache is in use: one for the loop, one
\* that fails, one that appends.
CacheRanges ==
    {Range(Position(0, 0), Position(0, 0)), Range(Position(0, 1), Position(0, 0)),
     Range(Position(1, 0), Position(1, 0))}

\* The cache of one document: get_cache calls, and the editor's operations.
NextCache ==
    \/ \E p \in Callers, c \in Consumers : GetCacheBegin(p, c)
    \/ \E p \in Coroutines : AcquireDocLock(p)
    \/ \E p \in Callers : GetCacheInLock(p)
    \/ \E p \in Callers : AcquireEntryLock(p)
    \/ \E p \in Callers, outcome \in Outcomes : ComputationEnds(p, outcome)
    \/ \E range \in CacheRanges :
           EditorCalls("apply_incremental_change", 0, range, <<>>, "none")
    \/ EditorCalls("apply_full_change", 0, NoRange, SomeText, "none")
    \/ EditorCalls("apply_none_change", 0, NoRange, <<>>, "none")
    \/ EditorCalls("invalidate_cache", 0, NoRange, <<>>, "none")
    \/ \E c \in Consumers : EditorCalls("remove_cache_entry", 0, NoRange, <<>>, c)
    \/ ApplyIncrementalChange
    \/ ApplyFullChange
    \/ ApplyNoneChange
    \/ DocInvalidateCache
    \/ RemoveCacheEntry

SpecCache == Init /\ [][NextCache]_vars

\* The values extensions store, and the versions the editor sends with an edit:
\* none, or the next one.
DataValues == {1, 2}
EditVersions == {0, doc_version + 1}

\* The data map and the version of one document: set_data by the extensions, and
\* the editor's operations, save and revert among them.
NextData ==
    \/ \E key \in DataKeys, value \in DataValues : SetData(key, value)
    \/ \E version \in EditVersions, via \in {"none", "save"} :
           EditorCallsWithin(MaxDataOps, "apply_full_change", version, NoRange, <<"a">>, "none", via)
    \/ \E version \in EditVersions, range \in CacheRanges :
           EditorCallsWithin(MaxDataOps, "apply_incremental_change", version, range, <<>>,
                             "none", "none")
    \/ \E op \in {"apply_none_change", "invalidate_cache", "invalidate_data", "clear"} :
           EditorCallsWithin(MaxDataOps, op, 0, NoRange, <<>>, "none", "none")
    \/ \E version \in EditVersions : Revert(MaxDataOps, version)
    \/ AcquireDocLock(Editor)
    \/ ApplyIncrementalChange
    \/ ApplyFullChange
    \/ ApplyNoneChange
    \/ DocInvalidateCache
    \/ DocInvalidateData
    \/ DocClear

SpecData == Init /\ [][NextData]_vars

\* The ids a client can send as previous_result_id: none, or one of a report
\* it has received.
SeenIds == {NoId} \cup {diag_responses[i].id : i \in 1..Len(diag_responses)}

\* The scheduling of the diagnostics of one document, open in an editor or
\* not, with collectors that answer with diagnostics and a client without
\* refresh support: pulls that name no report seen, force-refresh triggers and
\* edits.
InitScheduling ==
    /\ ProtocolInit /\ RegistryInit /\ BindingIdle /\ peer_sent = <<>> /\ DocumentInit(SomeText)
    /\ doc_opened_in_editor \in BOOLEAN /\ diag_refresh_support = FALSE
    /\ diag_worker = WorkerStarted

NextDiagnostics ==
    \/ \E h \in Pulls : PullCheck(h, NoId)
    \/ \E h \in Pulls : PullInstall(h)
    \/ \E h \in Pulls : PullSchedule(h)
    \/ \E h \in Pulls : PullCompare(h)
    \/ \E h \in Pulls : PullRespond(h)
    \/ ForceRefreshDocument
    \/ \E t \in DOMAIN diag_tasks : CancelDelivered(t)
    \/ \E t \in DOMAIN diag_tasks : DelayElapsed(t)
    \/ \E t \in DOMAIN diag_tasks, key \in Collectors : ResultArrives(t, key, "diagnostics")
    \/ \E t \in DOMAIN diag_tasks : CollectEnds(t)
    \/ \E t \in DOMAIN diag_tasks : WriteEntries(t)
    \/ \E t \in DOMAIN diag_tasks : RunRefresh(t)
    \/ \E t \in DOMAIN diag_tasks : RunFinally(t)
    \/ DocumentChanged(doc_version + 1, SomeText)

SpecDiagnostics == InitScheduling /\ [][NextDiagnostics]_vars

\* The runs for one version of the document, open in an editor or not, with
\* collectors that answer anything and a client with or without refresh support
\* (which nothing reads for a document that is not open): pulls only.
InitRuns ==
    /\ ProtocolInit /\ RegistryInit /\ BindingIdle /\ peer_sent = <<>> /\ DocumentInit(SomeText)
    /\ doc_opened_in_editor \in BOOLEAN /\ diag_refresh_support \in BOOLEAN
    /\ diag_refresh_support => doc_opened_in_editor
    /\ diag_worker = WorkerStarted
NextRuns ==
    \/ \E h \in Pulls, id \in SeenIds : PullCheck(h, id)
    \/ \E h \in Pulls : PullInstall(h)
    \/ \E h \in Pulls : PullSchedule(h)
    \/ \E h \in Pulls : PullCompare(h)
    \/ \E h \in Pulls : PullRespond(h)
    \/ \E t \in DOMAIN diag_tasks : DelayElapsed(t)
    \/ \E t \in DOMAIN diag_tasks, key \in Collectors, answer \in Answers :
           ResultArrives(t, key, answer)
    \/ \E t \in DOMAIN diag_tasks : CollectEnds(t)
    \/ \E t \in DOMAIN diag_tasks : WriteEntries(t)
    \/ \E t \in DOMAIN diag_tasks : RunRefresh(t)
    \/ \E t \in DOMAIN diag_tasks : RunFinally(t)

SpecRuns == InitRuns /\ [][NextRuns]_vars

\* What the loop of the runs does for the run t when it is its turn: the delay
\* elapses, or the coroutine goes on from where it stands.  None of these steps
\* waits for the client or for a collector.
RunGoesOn(t) ==
    /\ t \in DOMAIN diag_tasks
    /\ \/ DelayElapsed(t) \/ CollectEnds(t) \/ WriteEntries(t) \/ RunRefresh(t)
       \/ RunFinally(t)

\* The run started for a client that sends its requests one after the other,
\* each after the answer to the one before, with the scheduling of the loop
\* (run_forever, line 153): a task that is ready to go on is run.  Nothing is
\* assumed of the collectors or of the handlers, and the client answers nothing.
NextRunsFair ==
    \/ \E h \in Pulls : (h > 1 => diag_pulls[h - 1].pc = "returned") /\ PullCheck(h, NoId)
    \/ \E h \in Pulls : PullInstall(h)
    \/ \E h \in Pulls : PullSchedule(h)
    \/ \E h \in Pulls : PullCompare(h)
    \/ \E h \in Pulls : PullRespond(h)
    \/ \E t \in DOMAIN diag_tasks, key \in Collectors, answer \in Answers :
           ResultArrives(t, key, answer)
    \/ \E t \in Pulls : RunGoesOn(t)

SpecRunsFair == InitRuns /\ [][NextRunsFair]_vars /\ \A t \in Pulls : WF_vars(RunGoesOn(t))

NextRegistry ==
    \/ \E r \in Registries, n \in MethodNames : AddMethod(r, n)
    \/ \E r \in Registries, n \in MethodNames : RemoveMethod(r, n)
    \/ \E r \in Registries : AddClassPart(r)
    \/ \E r \in Registries, n \in MethodNames : LookupGetEntry(r, n)
    \/ \E r \in Registries : LookupMethods(r)

\* A registry and its child under registrations and lookups.
SpecRegistry == Init /\ [][NextRegistry]_vars

NextBinding == CallConvertParams

\* _convert_params on every handler signature and every params.
InitBinding ==
    /\ ProtocolInit /\ RegistryInit /\ BindingInputs /\ peer_sent = <<>> /\ DocumentInit(SomeText)
    /\ doc_opened_in_editor = FALSE /\ diag_refresh_support = FALSE
    /\ diag_worker = NoWorker

SpecBinding == InitBinding /\ [][NextBinding]_vars

\* The readers of one document: get_cache calls for one consumer or for two,
\* and a coroutine that reads the text and the lines.
NextReads ==
    \/ \E p \in Callers, c \in Consumers : GetCacheBegin(p, c)
    \/ \E p \in Coroutines : AcquireDocLock(p)
    \/ \E p \in Callers : GetCacheInLock(p)
    \/ \E p \in Callers : AcquireEntryLock(p)
    \/ \E p \in Callers, outcome \in Outcomes : ComputationEnds(p, outcome)
    \/ \E op \in {"text", "get_lines"} : EditorCallsWithin(MaxReads, op, 0, NoRange, <<>>, "none", "none")
    \/ DocText
    \/ DocGetLines

SpecReads == Init /\ [][NextReads]_vars

\* The start of the diagnostics worker: threads that ask for the loop, each
\* several times, the worker threads, and waits that time out.
InitWorker ==
    /\ ProtocolInit /\ RegistryInit /\ BindingIdle /\ peer_sent = <<>> /\ DocumentInit(SomeText)
    /\ doc_opened_in_editor = FALSE /\ diag_refresh_support = FALSE
    /\ diag_worker = [NoWorker EXCEPT !.calls = [c \in Starters |-> IdleStart]]

NextWorker ==
    \/ \E c \in Starters, op \in {"diagnostics_loop", "initialized"} : WorkerCalls(c, op)
    \/ \E c \in Starters : WorkerLock(c)
    \/ \E c \in Starters : WorkerTest(c)
    \/ \E c \in Starters : WaitReturns(c)
    \/ \E c \in Starters : WaitTimesOut(c)
    \/ \E c \in Starters : WorkerReturns(c)
    \/ \E t \in DOMAIN diag_worker.threads : ThreadSetsLoop(t)
    \/ \E t \in DOMAIN diag_worker.threads : ThreadSetsEvent(t)

SpecWorker == InitWorker /\ [][NextWorker]_vars

\* The dispatcher: the peer's messages arrive frame by frame.
Spec == Init /\ [][Next]_vars

----------------------------------------------------------------------------
(* Framing: what the claims speak about. *)

Delivered == wire = <<>> /\ frames # <<>>

DispatchedMessages == [i \in 1..Len(tasks) |-> tasks[i].msg]

ParseErrorsSent == Cardinality({i \in 1..Len(sent) : sent[i].kind = "error" /\ sent[i].code = PARSE_ERROR})

FramesOfKind(k) == Cardinality({i \in 1..Len(frames) : FrameKind(frames[i]) = k})

\* C1 (as stated): once a stream of well-formed frames has been delivered, in
\* whatever chunks, the messages dispatched are those of the frames, in order, none
\* lost and none twice, which is also what one unfragmented chunk dispatches.
C1_ChunkInvariant ==
    (Delivered /\ \A i \in 1..Len(frames) : FrameKind(frames[i]) = "good")
        => /\ DispatchedMessages = MessagesOfFrames(frames)
           /\ LET r == DataReceivedLoop(<<>>, BytesOfFrames(frames), <<>>)
                  t == HandleBodies(r.out, <<>>, <<>>).tasks
              IN  /\ DispatchedMessages = [i \in 1..Len(t) |-> t[i].msg]
                  /\ message_buf = r.buf


\* C5 (as stated): every complete frame whose body is not valid JSON or not a
\* JSON-RPC 2.0 message is answered by exactly one PARSE_ERROR with null id, the
\* buffer is emptied, and the well-formed frames around it are decoded normally,
\* also when they arrive in the same chunk.
C5_ParseErrorPerBadBody ==
    (/\ Delivered
     /\ FrameKind(frames[1]) = "badbody"
     /\ \A i \in 2..Len(frames) : FrameKind(frames[i]) = "good")
        => /\ ParseErrorsSent = FramesOfKind("badbody")
           /\ \A i \in 1..Len(sent) : sent[i].code = PARSE_ERROR => sent[i].id = NullId
           /\ message_buf = <<>>
           /\ DispatchedMessages = MessagesOfFrames(frames)

\* C6 (as stated): a malformed header block followed by a well-formed frame is
\* reported as a parse error with null id, and the well-formed frame is decoded
\* as its own message.
C6_BadHeaderReported ==
    (/\ Delivered
     /\ Len(frames) >= 2
     /\ FrameKind(frames[Len(frames)]) = "good"
     /\ \A i \in 1..(Len(frames) - 1) : FrameKind(frames[i]) = "badheader")
        => /\ ParseErrorsSent >= 1
           /\ DispatchedMessages = FrameMessages(frames[Len(frames)])

----------------------------------------------------------------------------
(* The dispatcher: what the claims speak about. *)

\* What task i wrote to the transport, in order.
RepliesBy(i) == SelectSeq(sent, LAMBDA w : w.by = i)

Registered(m) == ~NotFound(GetEntry(m.method))

\* Task i takes its first step (handle_message runs up to its first suspension
\* or to its end) in the step at hand.
Starts(i) == Runnable(i) /\ tasks'[i].state # "scheduled"

\* C2: a Request for a registered method gets nothing before its handler has
\* ended, and then exactly one reply carrying its id: a Response when binding and
\* the handler succeeded, an Error with INTERNAL_ERROR otherwise; no exception
\* leaves handle_request.
C2_OneReplyPerRequest ==
    \A i \in 1..Len(tasks) :
        LET t == tasks[i] IN
        (t.msg.kind = "request" /\ Registered(t.msg)) =>
            /\ t.state # "failed"
            /\ t.state \in {"scheduled", "awaiting"} => RepliesBy(i) = <<>>
            /\ t.state = "done" =>
                   RepliesBy(i) = << IF t.outcome = "return"
                                     THEN Written("response", t.msg.id, 0, i)
                                     ELSE Written("error", t.msg.id, INTERNAL_ERROR, i) >>

\* C2's case: one Request answered by a Response, another (same id) whose binding
\* raised answered by an Error.
C2_Witness ==
    \E i, j \in 1..Len(tasks) :
        /\ tasks[i].msg.kind = "request" /\ tasks[i].state = "done" /\ tasks[i].outcome = "return"
        /\ tasks[j].msg.kind = "request" /\ tasks[j].state = "done" /\ tasks[j].outcome = "bind_raise"
        /\ tasks[i].msg.id = tasks[j].msg.id

\* C3: a Request for a method that is not registered is answered by exactly one
\* Error with METHOD_NOT_FOUND and the request's id, and no handler is invoked
\* (the task neither awaits a handler nor records a handler's outcome).
C3_UnknownMethod ==
    \A i \in 1..Len(tasks) :
        LET t == tasks[i] IN
        (t.msg.kind = "request" /\ ~Registered(t.msg)) =>
            /\ t.state \in {"scheduled", "done"}
            /\ t.state = "scheduled" => RepliesBy(i) = <<>>
            /\ t.state = "done" =>
                   /\ RepliesBy(i) = <<Written("error", t.msg.id, METHOD_NOT_FOUND, i)>>
                   /\ t.outcome = "not_found"

\* C3's case: a Request for an unknown method has been handled.
C3_Witness ==
    \E i \in 1..Len(tasks) :
        tasks[i].msg.kind = "request" /\ ~Registered(tasks[i].msg) /\ tasks[i].state = "done"

\* C4: nothing on the transport was written by the task of a Notification.
C4_NotificationsSilent ==
    \A k \in 1..Len(sent) :
        sent[k].by # 0 => tasks[sent[k].by].msg.kind # "notification"

\* C4's case: a Notification for an unknown method and one whose binding or
\* handler raised have both been handled.
C4_Witness ==
    \E i, j \in 1..Len(tasks) :
        /\ tasks[i].msg.kind = "notification" /\ tasks[i].state = "done"
        /\ tasks[i].outcome = "not_found"
        /\ tasks[j].msg.kind = "notification" /\ tasks[j].state = "done"
        /\ tasks[j].outcome \in {"raise", "bind_raise"}

\* The future of a matched Response after handle_response, had it been pending.
Settled(m, rf) ==
    LET c == TryConvertValue(m.result, rf[m.id].result_type) IN
    Future(IF c.raised THEN "exception" ELSE "result", c.value)

\* C7 (as stated): a Response whose id is a key of the table removes the entry and
\* fulfils its future with the converted result, or fails it if conversion raises.
C7_MatchedResponseSettles ==
    [][\A i \in 1..Len(tasks) :
          (Starts(i) /\ tasks[i].msg.kind = "response"
             /\ ~ResponseUnmatched(tasks[i].msg, request_futures))
          => /\ tasks[i].msg.id \notin DOMAIN request_futures'
             /\ futures'[tasks[i].msg.id] = Settled(tasks[i].msg, request_futures)]_vars

\* C7 (amended): a Response whose id is a key of the table removes the entry; its
\* future, if still pending, is fulfilled with the converted result or failed if
\* conversion raises, and a future its caller has already cancelled stays as it
\* is; no other entry or future changes; and a future whose entry is gone is
\* never touched again, whatever arrives.
C7_MatchedResponse ==
    [][/\ \A i \in 1..Len(tasks) :
            (Starts(i) /\ tasks[i].msg.kind = "response"
               /\ ~ResponseUnmatched(tasks[i].msg, request_futures))
            => LET id == tasks[i].msg.id IN
               /\ request_futures' = Pop(request_futures, id)
               /\ futures' = [futures EXCEPT ![id] =
                                 IF futures[id].state = "pending"
                                 THEN Settled(tasks[i].msg, request_futures)
                                 ELSE futures[id]]
       /\ \A id \in DOMAIN futures :
            id \notin DOMAIN request_futures => futures'[id] = futures[id]]_vars

\* C7's case: two Responses with the same id have been handled, the first matched
\* and settled the future, the second found no entry.
C7_Witness ==
    \E i, j \in 1..Len(tasks) :
        /\ i < j
        /\ tasks[i].msg.kind = "response" /\ tasks[i].outcome = "return"
        /\ tasks[j].msg.kind = "response" /\ tasks[j].outcome = "unmatched"
        /\ tasks[i].msg.id = tasks[j].msg.id
        /\ futures[tasks[i].msg.id].state \in {"result", "exception"}

\* C8 (as stated): an Error whose id matches a pending request removes the entry
\* and completes its future.
C8_ErrorCompletesRequest ==
    [][\A i \in 1..Len(tasks) :
          (Starts(i) /\ tasks[i].msg.kind = "error"
             /\ tasks[i].msg.id \in DOMAIN request_futures)
          => /\ tasks[i].msg.id \notin DOMAIN request_futures'
             /\ futures'[tasks[i].msg.id].state # "pending"]_vars

\* C9: a Response whose id is null or no key of the table makes the dispatcher
\* write one Error with INTERNAL_ERROR, changes neither the table nor any future,
\* and ends without an exception.
C9_UnmatchedResponse ==
    [][\A i \in 1..Len(tasks) :
          (Starts(i) /\ tasks[i].msg.kind = "response"
             /\ ResponseUnmatched(tasks[i].msg, request_futures))
          => /\ sent' = Append(sent, Written("error", NullId, INTERNAL_ERROR, i))
             /\ request_futures' = request_futures
             /\ futures' = futures
             /\ tasks'[i].state = "done"]_vars

\* C9's case: a Response with a null id was handled while a request was pending.
C9_Witness ==
    \E i \in 1..Len(tasks) :
        /\ tasks[i].msg.kind = "response" /\ tasks[i].msg.id = NullId
        /\ tasks[i].outcome = "unmatched"
        /\ \E id \in DOMAIN request_futures : futures[id].state = "pending"

\* C10 (as stated): connection_lost leaves no entry in the table and no future
\* pending.
C10_TeardownClearsTable ==
    [][(connection = "open" /\ connection' = "lost")
          => /\ DOMAIN request_futures' = {}
             /\ \A id \in DOMAIN futures' : futures'[id].state # "pending"]_vars

----------------------------------------------------------------------------
(* Outgoing requests: ids and the pending-request table. *)

\* The Request with this id was written to the transport and no reply to it
\* (Response or Error) has been handled yet.
InFlight(id) ==
    /\ id \in requests_written
    /\ ~\E i \in 1..Len(tasks) :
           /\ tasks[i].msg.kind \in {"response", "error"}
           /\ tasks[i].msg.id = id
           /\ tasks[i].state # "scheduled"

----------------------------------------------------------------------------
(* The registries: what the claims speak about. *)

\* The entry the child has for a name, else the parent's, else None.
ChildOrParentEntry(name) ==
    LET own == EnsureInitialized(CurrentRegistry, "child").methods["child"]
        par == EnsureInitialized(CurrentRegistry, "parent").methods["parent"]
    IN  IF name \in DOMAIN own THEN own[name]
        ELSE IF name \in DOMAIN par THEN par[name]
        ELSE NoneEntry

\* C12 (as stated): a lookup of a name in the child registry, by get_entry or in
\* the merged methods view, gives the child's own entry when it has one and
\* otherwise the parent's entry of that name.
C12_ChildShadowsParent ==
    reg_result.reg = "child" =>
        /\ reg_result.op = "get_entry" => reg_result.value = ChildOrParentEntry(reg_result.name)
        /\ reg_result.op = "methods" =>
               \A n \in MethodNames :
                   IF n \in DOMAIN reg_result.value
                   THEN reg_result.value[n] = ChildOrParentEntry(n)
                   ELSE ChildOrParentEntry(n) = NoneEntry

\* get_entry(name) on registry r would return the entry add_method made.
AddedRetrievable(r, name) ==
    RegistryGetEntry(CurrentRegistry, r, name).value = RpcMethodEntry(name, <<r, "added">>)

\* C38: a method registered with add_method stays retrievable by get_entry under
\* its name until remove_method is called for that name: no other call on the
\* registries takes it away.
C38_AddedStaysRetrievable ==
    [][\A r \in Registries, n \in MethodNames :
          (AddedRetrievable(r, n) /\ ~AddedRetrievable(r, n)') => RemoveMethod(r, n)]_vars

----------------------------------------------------------------------------
(* Parameter binding: what the claims speak about. *)

\* The declared parameters of the handler (not its **kwargs).
DeclaredParameters == {i \in DOMAIN bind_callable : bind_callable[i].kind # "VAR_KEYWORD"}

HasVarKw == \E i \in DOMAIN bind_callable : bind_callable[i].kind = "VAR_KEYWORD"

\* What the handler receives for its i-th parameter from (args, kw_args): the
\* positional arguments fill the leading parameters in order, the keywords go by
\* name; [nothing |-> TRUE] when neither provides it.
Received(i) ==
    IF i <= Len(bind_result.args) THEN bind_result.args[i]
    ELSE IF bind_callable[i].name \in DOMAIN bind_result.kw_args
         THEN bind_result.kw_args[bind_callable[i].name]
         ELSE [nothing |-> TRUE]

\* C13 (as stated): with a descriptor and a mapping as params, every declared
\* parameter named like a field receives that field's value, positionally when it
\* is positional-only and by keyword otherwise; fields that name no declared
\* parameter are in the keywords when the handler has a catch-all; and a declared
\* parameter named params (when no field has that name) receives the typed object.
C13_FieldsBoundToParameters ==
    (bind_result.called /\ bind_param_type = "T" /\ bind_params.kind = "mapping") =>
        LET fields == bind_params.mapping IN
        /\ ~bind_result.raised
        /\ \A i \in DeclaredParameters :
               LET v == bind_callable[i] IN
               /\ v.name \in fields =>
                      /\ Received(i) = FieldValue(v.name)
                      /\ v.kind = "POSITIONAL_ONLY" <=> v.name \notin DOMAIN bind_result.kw_args
               /\ (v.name = "params" /\ "params" \notin fields) =>
                      Received(i) = TypedObject(fields)
        /\ HasVarKw =>
               \A f \in fields :
                   (\A i \in DeclaredParameters : bind_callable[i].name # f)
                       => (f \in DOMAIN bind_result.kw_args /\ bind_result.kw_args[f] = FieldValue(f))

----------------------------------------------------------------------------
(* send_data and data_received: what the claims speak about. *)

\* C14: the header send_data writes is matched by the framing pattern with a
\* length that is the length of the body and with the body after the blank line;
\* and once the bytes of the messages the peer wrote have been delivered, the
\* messages dispatched are those messages, variant and fields alike, one each, in
\* order, with no parse error and nothing left in the buffer.
C14_SendDataRoundTrip ==
    /\ \A i \in 1..Len(peer_sent) :
           LET m == MessagePatternMatch(SendDataBytes(peer_sent[i])) IN
           /\ m.found /\ m.charset = "utf-8"
           /\ m.length = Len(SendDataBody(peer_sent[i]))
           /\ m.body = SendDataBody(peer_sent[i])
    /\ (wire = <<>> /\ peer_sent # <<>>) =>
           /\ DispatchedMessages = peer_sent
           /\ sent = <<>>
           /\ message_buf = <<>>

\* C14's case: an Error with a null id and a Response with a null result written
\* by send_data have been delivered and decoded.
C14_Witness ==
    /\ wire = <<>>
    /\ Len(tasks) = 2
    /\ \E i, j \in 1..Len(peer_sent) :
           /\ peer_sent[i] = ErrorMessage(NullId, PARSE_ERROR)
           /\ peer_sent[j] = ResponseMessage(NullId, "absent")

----------------------------------------------------------------------------
(* apply_incremental_change: what the claims speak about. *)

\* The offset of a position in a text: the lengths of the lines before its line,
\* and its character, which counts no further than the end of the line.
RECURSIVE Offset(_, _)
Offset(lines, position) ==
    IF position.line = 0
    THEN (IF position.character < Len(lines[1]) THEN position.character ELSE Len(lines[1]))
    ELSE Len(lines[1])
         + Offset(Tail(lines), Position(position.line - 1, position.character))

\* The step in which the block of apply_incremental_change(version, range, text)
\* runs on the document.
IncrementalChangeStep ==
    /\ doc_calls[Editor].pc = "in_doc_lock"
    /\ doc_calls[Editor].op = "apply_incremental_change"
    /\ doc_calls'[Editor].pc = "idle"

\* C15: an incremental edit with start <= end whose start line and end line are
\* lines of the text gives the text before the start position, then the
\* replacement text, then the text from the end position on.
C15_EditReplacesSpan ==
    [][LET range == doc_calls[Editor].range
           lines == SplitLines(doc_text)
       IN  (/\ IncrementalChangeStep
            /\ ~PositionGt(range.start, range.end)
            /\ range.start.line < Len(lines)
            /\ range.end.line < Len(lines))
           => doc_text' = SubSeq(doc_text, 1, Offset(lines, range.start))
                          \o doc_calls[Editor].text
                          \o SubSeq(doc_text, Offset(lines, range.end) + 1, Len(doc_text))]_vars

\* C15's case: an edit through the loop has put text between two lines
\* ("a\na" with (1,0)-(1,0) and "a" gives "a\naa").
C15_Witness ==
    /\ doc_calls[Editor].op = "apply_incremental_change"
    /\ doc_calls[Editor].branch = "loop"
    /\ doc_text = <<"a", "NL", "a", "a">>

\* C16: apply_incremental_change with a range whose start is greater than its end
\* raises InvalidRangeError, leaves the text as it was and frees the lock of the
\* document.
C16_InvalidRangeLeavesText ==
    [][(IncrementalChangeStep /\ PositionGt(doc_calls[Editor].range.start,
                                            doc_calls[Editor].range.end))
       => /\ doc_calls'[Editor].result = RaisedError
          /\ doc_text' = doc_text
          /\ ~Locked(doc_lock')]_vars

\* C16's case: the call has failed on a text of two lines, and the lock is free.
C16_Witness ==
    /\ doc_calls[Editor].op = "apply_incremental_change"
    /\ doc_calls[Editor].result = RaisedError
    /\ doc_text = <<"a", "NL", "a">>
    /\ ~Locked(doc_lock)

\* The step is an edit whose start line is the number of lines of the text.
AppendStep ==
    /\ IncrementalChangeStep
    /\ doc_calls[Editor].range.start.line = Len(SplitLines(doc_text))

\* C17 as stated: an edit whose start line is the number of lines of the text
\* gives the old text followed by the replacement text, whatever the start
\* character and the end position.
C17_AppendWhateverTheEnd ==
    [][AppendStep => doc_text' = doc_text \o doc_calls[Editor].text]_vars

\* C17: an edit whose start line is the number of lines of the text and whose end
\* is not before its start gives the old text followed by the replacement text,
\* whatever the start character.
C17_AppendUnlessEndBeforeStart ==
    [][(AppendStep /\ ~PositionGt(doc_calls[Editor].range.start, doc_calls[Editor].range.end))
       => /\ doc_text' = doc_text \o doc_calls[Editor].text
          /\ doc_calls'[Editor].result = ReturnValue(0)]_vars

\* C17's case: a letter has been appended to a text of two lines ("\r\na", with
\* start line 2).
C17_Witness ==
    /\ doc_calls[Editor].branch = "append"
    /\ doc_text = <<"CR", "NL", "a", "a">>
    /\ doc_calls[Editor].n = 1

----------------------------------------------------------------------------
(* The memoization cache: what the claims speak about. *)

\* The operations that clear the cache.
ClearingOps ==
    {"apply_full_change", "apply_incremental_change", "apply_none_change", "invalidate_cache"}

\* The step in which the block of one of the editor's operations runs.
EditorBlockStep(ops) ==
    /\ doc_calls[Editor].pc = "in_doc_lock"
    /\ doc_calls[Editor].op \in ops
    /\ doc_calls'[Editor].pc = "idle"

\* The step in which the get_cache call of p returns or raises.
GetCacheEnds(p) ==
    /\ doc_calls[p].op = "get_cache"
    /\ doc_calls[p].pc # "idle"
    /\ doc_calls'[p].pc = "idle"

\* C18: each synchronization operation, failed or not, and invalidate_cache leave
\* the cache with no slot; and a get_cache that finds no slot for its consumer
\* does not end before a run of the computation that began after the call did,
\* a value it returns being the value of such a run.
C18_ClearedCacheComputesAgain ==
    [][/\ EditorBlockStep(ClearingOps) => doc_cache' = NoSlots
       /\ \A p \in Callers :
              (GetCacheEnds(p) /\ doc_calls[p].fresh_after >= 0)
              => /\ doc_runs > doc_calls[p].fresh_after
                 /\ doc_calls'[p].result.value # 0
                        => doc_calls'[p].result.value > doc_calls[p].fresh_after]_vars

\* C18's case: invalidate_cache has run, and the two get_cache calls for c1 have
\* returned the values of two runs.
C18_Witness ==
    /\ doc_calls[Editor].op = "invalidate_cache" /\ doc_calls[Editor].pc = "idle"
    /\ doc_calls[1].consumer = "c1" /\ doc_calls[1].result = ReturnValue(1)
    /\ doc_calls[2].consumer = "c1" /\ doc_calls[2].result = ReturnValue(2)

\* C19: a get_cache call that has waited for the lock of its slot while a run of
\* the computation was under way does not run the computation itself: it
\* returns the value of that run, so the calls made together for one consumer
\* trigger one run and return one value.
C19_SingleFlight ==
    [][\A p \in Callers :
          (/\ doc_calls[p].pc = "entry_lock"
           /\ doc_calls[p].joined # 0
           /\ doc_calls'[p].pc # "entry_lock")
          => /\ doc_calls'[p].pc = "idle"
             /\ doc_calls'[p].result = ReturnValue(doc_calls[p].joined)]_vars

\* C20: for each consumer at most one computation is under way on the document.
C20_OneComputationPerKey ==
    \A c \in Consumers :
        Cardinality({p \in Callers : doc_calls[p].pc = "computing"
                                     /\ doc_calls[p].consumer = c}) <= 1

----------------------------------------------------------------------------
(* The data map and the version: what the claims speak about. *)

\* C21: the block of apply_full_change, apply_incremental_change,
\* apply_none_change and invalidate_cache leaves the data map as it was; and
\* after every step get_data returns, for each key, the value set_data stored
\* last, as long as no clear or invalidate_data has run since.
C21_DataKeptUntilCleared ==
    [][/\ EditorBlockStep(ClearingOps) => doc_data' = doc_data
       /\ \A key \in DataKeys :
              doc_stored'[key].value # 0
              => GetData(doc_data', key, 0) = doc_stored'[key].value]_vars

\* C21's case: a value was stored before the editor's first call, the editor has
\* made two calls, the last of them an incremental edit, and the value is there.
C21_Witness ==
    /\ doc_stored["extension"] = [value |-> 1, at |-> 0]
    /\ doc_calls[Editor].n = 2 /\ doc_calls[Editor].pc = "idle"
    /\ doc_calls[Editor].op = "apply_incremental_change"
    /\ GetData(doc_data, "extension", 0) = 1

\* C22: no step makes the version smaller, and a step that changes it is the
\* block of apply_full_change or apply_incremental_change.
C22_VersionNeverDecreases ==
    [][/\ doc_version' >= doc_version
       /\ doc_version' # doc_version
              => EditorBlockStep({"apply_full_change", "apply_incremental_change"})]_vars

----------------------------------------------------------------------------
(* The scheduling of diagnostics runs: what the claims speak about. *)

\* The record the document holds for the diagnostics part.
Installed == doc_data["diagnostics"]

\* The step in which the handler h passes the test of line 291.
PullChecks(h) == diag_pulls[h].pc = "idle" /\ diag_pulls'[h].pc # "idle"

\* The step of a handler that goes on with the record it found.
PullKeeps(h) ==
    /\ diag_pulls'[h] # diag_pulls[h]
    /\ diag_pulls'[h].pc \in {"compare", "unchanged_id", "id", "returned"}
    /\ diag_pulls[h].pc # "schedule"

\* C23: a handler takes the branch that installs a new record and starts a run
\* exactly when the record it got has its force flag set, or a version other
\* than the document's, or no task; on that branch it installs a record made
\* then and starts one task for it; on the other branch it leaves the installed
\* record, its task and the tasks as they are.
C23_RerunIffStale ==
    [][\A h \in Pulls :
          /\ PullChecks(h)
              => (diag_pulls'[h].pc = "install"
                  <=> \/ diag_records'[Installed'].force
                      \/ diag_records'[Installed'].version # doc_version
                      \/ diag_records'[Installed'].task = 0)
          /\ (diag_pulls[h].pc = "install" /\ diag_pulls'[h].pc # "install")
              => /\ Installed' = Len(diag_records) + 1
                 /\ Len(diag_records') = Len(diag_records) + 1
          /\ (diag_pulls[h].pc = "schedule" /\ diag_pulls'[h].pc # "schedule")
              => /\ Len(diag_tasks') = Len(diag_tasks) + 1
                 /\ diag_records'[diag_pulls[h].data].task = Len(diag_tasks')
                 /\ diag_tasks'[Len(diag_tasks')].data = diag_pulls[h].data
          /\ PullKeeps(h)
              => /\ Len(diag_tasks') = Len(diag_tasks)
                 /\ Installed # 0 => (Installed' = Installed /\ diag_records' = diag_records)]_vars

\* C23's case: the second request finds a record made for the version the
\* document has, with a task, and with the force flag set: it installs a new one.
C23_Witness ==
    /\ diag_pulls[2].pc = "install"
    /\ diag_records[diag_pulls[2].data].force
    /\ diag_records[diag_pulls[2].data].version = doc_version
    /\ diag_records[diag_pulls[2].data].task # 0

\* The step of a run: it goes on, or takes note of what a collector answered.
RunSteps(t) ==
    /\ t \in DOMAIN diag_tasks
    /\ \/ diag_tasks'[t].pc # diag_tasks[t].pc
       \/ diag_tasks'[t].results # diag_tasks[t].results

\* C24: when a handler installs a new record while the task it found is not
\* done, the cancellation of that task has been asked for by then; and no step
\* of a run whose record is not the installed one changes the id or the entries
\* of the installed record.
C24_CancelBeforeInstall ==
    [][/\ \A h \in Pulls :
              (/\ diag_pulls[h].pc = "install" /\ diag_pulls'[h].pc # "install"
               /\ diag_pulls[h].task # 0
               /\ ~TaskDone(diag_tasks[diag_pulls[h].task]))
              => diag_tasks[diag_pulls[h].task].cancel # "none"
       /\ \A t \in DOMAIN diag_tasks :
              (RunSteps(t) /\ Installed # 0 /\ diag_tasks[t].data # Installed)
              => /\ diag_records'[Installed].id = diag_records[Installed].id
                 /\ diag_records'[Installed].entries = diag_records[Installed].entries]_vars

\* The runs of the document that are active: started, and neither finished nor
\* cancelled.
ActiveRuns == {t \in DOMAIN diag_tasks : ~TaskDone(diag_tasks[t])}

\* C25: the document never has two active runs.
C25_OneActiveRun == Cardinality(ActiveRuns) <= 1

\* Nothing is under way: every handler that started has returned and every task
\* is done.
Quiet ==
    /\ \A h \in Pulls : diag_pulls[h].pc \in {"idle", "returned"}
    /\ ActiveRuns = {}

\* C26: after force-refresh triggers, with no edit, each followed by a pull while
\* the run before was under way, and when all is over: every task whose
\* cancellation was asked for has ended cancelled, and what the installed record
\* holds is what its own run, the last, collected.
C26_LastRunSurvives ==
    (Quiet /\ diag_forced > 0 /\ doc_calls[Editor].n = 0 /\ Installed # 0)
    => /\ \A t \in DOMAIN diag_tasks :
              diag_tasks[t].cancel # "none" => diag_tasks[t].pc = "cancelled"
       /\ \A k \in Collectors :
              diag_records[Installed].entries[k] # 0
              => /\ diag_records[Installed].task # 0
                 /\ k \in diag_tasks[diag_records[Installed].task].collected_keys

\* C27: while a run is in its delay no collector has answered, nothing is
\* written to its record and it has awaited no refresh; and a run cancelled in
\* its delay has ended cancelled, and stays so.
C27_NothingBeforeDelay ==
    \A t \in DOMAIN diag_tasks :
        (diag_tasks[t].pc = "sleep" \/ diag_tasks[t].cancel = "in_delay")
        => /\ \A k \in Collectors : diag_tasks[t].results[k] = "pending"
           /\ diag_records[diag_tasks[t].data].entries = NoEntries
           /\ diag_records[diag_tasks[t].data].id = RunId(diag_tasks[t].data, 0)
           /\ diag_tasks[t].refreshes = 0
           /\ diag_tasks[t].cancel = "in_delay" => diag_tasks[t].pc = "cancelled"

\* C27's case: for a document open in an editor the first run was cancelled in
\* its delay, and the second has collected, awaited refresh and ended.
C27_Witness ==
    /\ doc_opened_in_editor
    /\ Len(diag_tasks) = 2
    /\ diag_tasks[1].cancel = "in_delay"
    /\ diag_tasks[2].pc = "done" /\ diag_tasks[2].refreshes = 2

----------------------------------------------------------------------------
(* The runs and the reports: what the claims speak about. *)

RunWrites(t) == diag_tasks[t].pc = "write_entries" /\ diag_tasks'[t].pc # "write_entries"

\* The step in which the run t awaits refresh.
RunRefreshes(t) == diag_tasks[t].pc = "refresh" /\ diag_tasks'[t].pc # "refresh"

\* C29: a run writes each result under its key when it has arrived; for a
\* document open in an editor its next step is the refresh, which sends one
\* signal, before it takes the next result; for a document that is not open it
\* goes on to the next result and no signal is sent.
C29_RefreshAfterEachWrite ==
    [][\A t \in DOMAIN diag_tasks :
          /\ RunWrites(t)
              => /\ diag_records'[diag_tasks[t].data].entries[diag_tasks[t].cur] # 0
                 /\ diag_tasks'[t].pc = IF doc_opened_in_editor THEN "refresh" ELSE "next"
          /\ RunRefreshes(t) => diag_signals' = diag_signals + 1
          /\ ~doc_opened_in_editor => diag_signals' = diag_signals]_vars

\* The full reports returned so far.
FullReports == {i \in DOMAIN diag_responses : diag_responses[i].kind = "full"}

\* C30: two full reports with one id carry the same entries; and of two full
\* reports with different ids the one returned later carries, for no collector,
\* diagnostics made for an older version than the earlier one carries.
C30_IdsIdentifyEntries ==
    \A i \in FullReports, j \in FullReports :
        /\ diag_responses[i].id = diag_responses[j].id
               => diag_responses[i].entries = diag_responses[j].entries
        /\ (i < j /\ diag_responses[i].id # diag_responses[j].id)
               => \A k \in Collectors :
                      diag_responses[j].entries[k] # 0
                      => diag_responses[j].entries[k] >= diag_responses[i].entries[k]
----------------------------------------------------------------------------
(* The reports of the handler: what the claims speak about. *)

\* The step in which the handler h returns its report.
PullReplies(h) == diag_pulls[h].pc # "returned" /\ diag_pulls'[h].pc = "returned"

\* The report a handler returned last.
LastReport(responses) == responses[Len(responses)]

\* C31: the report a handler returns is the unchanged one, carrying the id of
\* its record, exactly when the id its caller gave is the id that record has as
\* the handler replies; else it is the full one, carrying the entries that
\* record then has for the collectors, and that id.
C31_ReportByCurrentId ==
    [][\A h \in Pulls :
          PullReplies(h)
          => LET data == diag_records[diag_pulls[h].data]
             IN LastReport(diag_responses') =
                    IF data.id = diag_pulls[h].previous_result_id
                    THEN UnchangedReport(data.id)
                    ELSE FullReport(Aggregated(data.entries), data.id)]_vars

\* The first half of C31, which the code does not keep either: the report is
\* the unchanged one exactly when the caller's id is the record's as it replies.
C31_UnchangedIffCurrentId ==
    [][\A h \in Pulls :
          PullReplies(h)
          => (LastReport(diag_responses').kind = "unchanged"
              <=> diag_records[diag_pulls[h].data].id = diag_pulls[h].previous_result_id)]_vars
\* The request that repeats the id of the first report: the first handler had
\* returned it, the only report by then, when the client sent the request.
RepeatsFirstReport(pull) ==
    /\ Len(diag_responses) >= 1
    /\ diag_responses[1].id # NoId
    /\ pull.previous_result_id = diag_responses[1].id

\* The ids that are new to the caller of a handler that installed a record: the
\* ids of that record, none of them the one the caller gave.
NewIds(pull) ==
    {RunId(pull.data, n) : n \in 0..Cardinality(Collectors)} \ {pull.previous_result_id}

RunsInDelay == \A t \in DOMAIN diag_tasks : diag_tasks[t].pc = "sleep"

----------------------------------------------------------------------------
(* The diagnostics worker: what the claims speak about. *)

\* C33: whatever the calls of diagnostics_loop and of
\* _ensure_diagnostics_thread_started, at most one worker thread is started, and
\* the calls of diagnostics_loop that have returned have all returned one loop.
C33_WorkerStartedOnce ==
    /\ Len(diag_worker.threads) <= 1
    /\ Cardinality(diag_worker.returned) <= 1
    /\ 0 \notin diag_worker.returned
----------------------------------------------------------------------------
(* The readers of the document: what the claims speak about. *)

\* The callers whose computation for get_cache is in progress.
Computing == {p \in Callers : doc_calls[p].pc = "computing"}

\* C34: while the computation of a get_cache call is in progress, that call does
\* not hold the lock of the document, and the coroutine that holds it, if any,
\* is in a block that awaits nothing; and a get_cache call for another consumer
\* that goes for the lock of its entry finds a lock the computing call does not
\* hold.
C34_ComputationOutsideDocLock ==
    \A p \in Computing :
        /\ doc_lock # p
        /\ Locked(doc_lock) => doc_calls[doc_lock].pc = "in_doc_lock"
        /\ \A q \in Callers :
               (doc_calls[q].pc = "entry_lock" /\ doc_calls[q].consumer # doc_calls[p].consumer)
               => doc_entries[doc_calls[q].e].lock # p

\* C34's case: the first computation, for c1, is still in progress; a get_cache
\* call for c2 that came after it began has returned the value of the second
\* computation, and text() and get_lines() have both returned.
C34_Witness ==
    /\ doc_calls[1].pc = "computing" /\ doc_calls[1].consumer = "c1"
    /\ doc_entries[doc_calls[1].e].running = 1
    /\ doc_calls[2].pc = "idle" /\ doc_calls[2].consumer = "c2"
    /\ doc_calls[2].result = ReturnValue(2)
    /\ doc_calls[Editor].pc = "idle" /\ doc_calls[Editor].n = 2
    /\ doc_calls[Editor].op = "text" /\ doc_lines[1]
----------------------------------------------------------------------------
(* Failed edits, edits beyond the text, save and revert: what the claims speak *)
(* about.                                                                      *)

\* C35: a call of apply_incremental_change that raises InvalidRangeError leaves
\* the text and the version of the document as they were before it.
C35_FailedEditChangesNothing ==
    [][(IncrementalChangeStep /\ doc_calls'[Editor].result = RaisedError)
       => (doc_text' = doc_text /\ doc_version' = doc_version)]_vars
\* The step in which the handler h records the version in its new record and
\* starts the run.
PullSchedules(h) == diag_pulls[h].pc = "schedule" /\ diag_pulls'[h].pc # "schedule"

\* C36: the version a handler records in the record it made is read with the
\* lock of the document held, and is the version its test of line 291 compared.
C36_VersionSnapshot ==
    [][\A h \in Pulls :
          PullSchedules(h)
          => /\ Locked(doc_lock)
             /\ diag_records'[diag_pulls[h].data].version = diag_pulls[h].version]_vars

\* The second half of C36 alone: the version recorded is the version compared.
C36_RecordedIsCompared ==
    [][\A h \in Pulls :
          PullSchedules(h)
          => diag_records'[diag_pulls[h].data].version = diag_pulls[h].version]_vars
\* Every collector of the run has answered, a result or an exception.
CollectorsReturned(task) == \A k \in Collectors : task.results[k] # "pending"

PastEndStep ==
    /\ IncrementalChangeStep
    /\ ~PositionGt(doc_calls[Editor].range.start, doc_calls[Editor].range.end)
    /\ doc_calls[Editor].range.start.line > Len(SplitLines(doc_text))

\* C39: an incremental edit with start <= end whose start line is greater than
\* the number of lines of the text raises no error and leaves the text as it
\* was: the replacement text is inserted nowhere.
C39_EditPastEndIgnored ==
    [][PastEndStep => /\ doc_text' = doc_text
                      /\ doc_calls'[Editor].result = ReturnValue(0)]_vars

\* C39's case: an edit whose start line is past the one line "a\n" has gone
\* through the loop and returned, and the text is "a\n" at the edit's version.
C39_Witness ==
    /\ doc_calls[Editor].op = "apply_incremental_change"
    /\ doc_calls[Editor].pc = "idle" /\ doc_calls[Editor].n = 1
    /\ doc_calls[Editor].branch = "loop_past"
    /\ doc_calls[Editor].result = ReturnValue(0)
    /\ doc_text = <<"a", "NL">>
    /\ doc_version = 2
\* The step in which the editor calls revert: it returns False at once, or goes
\* on to await apply_full_change.
RevertCalled ==
    /\ doc_calls[Editor].pc = "idle"
    /\ doc_calls'[Editor].n = doc_calls[Editor].n + 1
    /\ doc_calls'[Editor].op = "revert" \/ doc_calls'[Editor].via = "revert"

\* revert has returned False, in the step of its call.
RevertReturnedFalse ==
    doc_calls[Editor].op = "revert" /\ doc_calls[Editor].result = ReturnFalse

\* The editor's last call was save, and it has returned.
AfterSave == doc_calls[Editor].pc = "idle" /\ doc_calls[Editor].via = "save"

\* C40: revert called directly after save returns False and changes neither the
\* text nor the version; revert does not return False while the text differs
\* from the last saved (or initial) text; and when the call that revert awaits
\* has run, the text is the last saved (or initial) text.
C40_RevertAfterSave ==
    [][/\ (RevertCalled /\ AfterSave)
              => (RevertReturnedFalse' /\ doc_text' = doc_text /\ doc_version' = doc_version)
       /\ (RevertCalled /\ doc_text # doc_orig_text) => ~RevertReturnedFalse'
       /\ (EditorBlockStep({"apply_full_change"}) /\ doc_calls[Editor].via = "revert")
              => (doc_text' = doc_orig_text /\ doc_calls'[Editor].result = ReturnTrue)]_vars

\* The parts of C40 that do not speak of a revert right after save.
C40_RevertRestoresText ==
    [][/\ (RevertCalled /\ doc_text # doc_orig_text) => ~RevertReturnedFalse'
       /\ (EditorBlockStep({"apply_full_change"}) /\ doc_calls[Editor].via = "revert")
              => (doc_text' = doc_orig_text /\ doc_calls'[Editor].result = ReturnTrue)]_vars
====
